---- MODULE Spec2Model ----
(***************************************************************************)
(* Receiver-side frame builder of the LiDAR streaming pipeline             *)
(* (SLAM/slam_rx/cpp/src/frame_builder_cpp.cpp).                            *)
(*                                                                         *)
(* The builder is modelled as one record `builder` whose fields carry the  *)
(* names of the private members of class FrameBuilder; the referenced      *)
(* FrameBuilderStats object is the nested field stats_.  Every member      *)
(* function is an operator from the builder record (and the call's         *)
(* arguments) to the builder record after the call, composed exactly as    *)
(* the C++ functions call each other.                                      *)
(*                                                                         *)
(* A float of a record's xyz array is modelled as the pair <<k, i>>: the   *)
(* i-th float of the k-th add_packet call, so that every float that is     *)
(* copied can be traced to the record it came from.  The value-initialised *)
(* float written by vector::resize is <<0, 0>>.                            *)
(*                                                                         *)
(* Timestamps are int64 values drawn from a small range that contains      *)
(* negative values (the code reserves "start < 0" for "no frame"); the     *)
(* range is far from INT64_MAX, so start + frame_period never overflows.   *)
(* Sequence numbers are unsigned values of SEQ_BITS bits.                  *)
(*                                                                         *)
(* The second and third parts model the datagram parser of the receiver    *)
(* (SLAM/slam_rx/cpp/src/lidar_protocol_cpp.cpp) and the sender            *)
(* (SLAM/lidar_tx/lidar_stream.cpp).  Datagrams are sequences of bytes,    *)
(* little-endian as on the targets; the 32-bit CRC is computed bit for bit *)
(* on 4-byte values, least significant byte first.  A coordinate of v      *)
(* millimetres becomes the 4 bytes MetresFloat(v), which stand for the     *)
(* float v * 0.001f and differ for different v.  The sender's globals are  *)
(* the record tx; its sequence counter has PACKET_SEQ_BITS bits, so that   *)
(* it wraps within a session.  Each specification leaves the variables of  *)
(* the other parts at their initial values.                                *)
(*                                                                         *)
(* Further specifications: SpecTs feeds the callback sweeps whose device   *)
(* timestamps advance, repeat, go back and jump by a second while the host *)
(* clock advances; SpecGap feeds the builder sequence numbers at both ends *)
(* of the counter's range; SpecMain is the life of a sender process        *)
(* (lidar_stream or LiDAR/g1_lidar_stream.cpp) from main's first line to   *)
(* its return, with the signal handler and the driver's callback thread    *)
(* interleaved, and SpecMainFair adds the fairness under which main and a  *)
(* callback in flight make progress; SpecThr interleaves threads inside    *)
(* send_packet; SpecCrc applies crc32_ieee to byte strings in each of the  *)
(* three builds its preprocessor branches select; SpecBatch feeds the      *)
(* builder through add_packets_batch; SpecPy is the Python binding         *)
(* FrameBuilderPy (frame_builder_pybind.cpp) with its external stats       *)
(* object.                                                                 *)
(***************************************************************************)
EXTENDS Integers, Sequences, FiniteSets, TLC

\* ------------------------------------------------------------------------
\* Bounds of the model
\* ------------------------------------------------------------------------
\* number of add_packet calls in a run
MaxCalls == 3
\* number of flush()/reset() calls in a run
MaxCtl == 1

\* Configuration the builder is constructed with: frame_period_s * 1e9 and
\* max_frame_points (frame_builder_cpp.cpp:74-79)
FRAME_PERIOD_NS == 2
MAX_FRAME_POINTS == 3

\* Arguments of add_packet.  Timestamps: one negative value, and values that
\* fall before, inside and on the end of a window of FRAME_PERIOD_NS.
\* Point counts: an empty array, one point (three such records fill a
\* frame), a count that fills a frame and a count that exceeds
\* MAX_FRAME_POINTS on its own.  Sequence numbers: two distinct values.
TsSet == (0 - 1)..FRAME_PERIOD_NS
CountSet == {0, 1, MAX_FRAME_POINTS, MAX_FRAME_POINTS + 1}
SeqSet == {0, 1}

\* uint32_t arithmetic is modelled at a reduced width of SEQ_BITS bits
SEQ_BITS == 16
UINT32_MOD == 2^SEQ_BITS

\* std::optional<T>: nullopt is the empty sequence, a value x is <<x>>
nullopt == <<>>
Some(x) == <<x>>
has_value(o) == Len(o) = 1
value(o) == o[1]

\* the xyz array of the k-th add_packet call: point_count * 3 floats
XyzData(k, point_count) == [i \in 1..(point_count * 3) |-> <<k, i>>]

VARIABLES
    builder,     \* the FrameBuilder object (members + referenced stats_)
    ret,         \* std::optional<Frame> returned by the last call
    last_call,   \* history: the last call, its arguments and the branch taken
    emitted,     \* history: the floats of every frame returned before the last call
    out,         \* history: totals over the frames returned so far
    external_stats_, \* the Python stats object of FrameBuilderPy (nullopt: None)
    ncalls,      \* history: number of add_packet calls so far
    nctl,        \* history: number of flush()/reset() calls so far
    proto,       \* the receiver's LidarProtocol object (validate_crc_, stats_)
    rx_data,     \* history: the datagram given to the last parse_datagram call
    rx_ret,      \* std::optional<ParsedPacket> returned by the last call
    nparse,      \* history: number of parse_datagram calls so far
    tx,          \* the global state of the sender process
    sock,        \* the sendto calls of the last callback: bytes and result
    sweep,       \* history: the arguments of the last callback
    tx_log,      \* history: sequence number and result of every sendto call
    ncb,         \* history: number of callbacks so far
    nwarn,       \* history: number of timestamp fallback warnings on stderr
    proc,        \* a sender process: main, the driver, the socket, signals
    thr          \* driver threads running send_packet concurrently

fbVars    == <<builder, ret, last_call, emitted, out, external_stats_,
               ncalls, nctl>>
protoVars == <<proto, rx_data, rx_ret, nparse>>
txVars    == <<tx, sock, sweep, tx_log, ncb, nwarn>>
procVars  == <<proc, thr>>
vars == <<builder, ret, last_call, emitted, out, external_stats_, ncalls, nctl,
          proto, rx_data, rx_ret, nparse, tx, sock, sweep, tx_log, ncb, nwarn,
          proc, thr>>

\* no frame returned yet; pre tells that every call so far was an add_packet
\* with a timestamp >= 0 and at least one point
NoFrames == [frames |-> 0, pkt_count |-> 0, point_count |-> 0, pre |-> TRUE]
RECURSIVE SumPkts(_)
SumPkts(frames) ==
    IF frames = <<>> THEN 0 ELSE frames[1].pkt_count + SumPkts(Tail(frames))
RECURSIVE SumPts(_)
SumPts(frames) ==
    IF frames = <<>> THEN 0 ELSE frames[1].point_count + SumPts(Tail(frames))
\* the totals after a call that returned frames (one frame at most, but for
\* add_packets_batch)
Returned(frames, pre) ==
    [frames      |-> out.frames + Len(frames),
     pkt_count   |-> out.pkt_count + SumPkts(frames),
     point_count |-> out.point_count + SumPts(frames),
     pre         |-> out.pre /\ pre]

\* a specification of one component leaves the other components unbuilt
NoParser == proto = nullopt /\ rx_data = <<>> /\ rx_ret = nullopt /\ nparse = 0
NoSender == tx = nullopt /\ sock = <<>> /\ sweep = nullopt /\ tx_log = <<>>
            /\ ncb = 0 /\ nwarn = 0
NoProcess == proc = nullopt /\ thr = nullopt

\* ------------------------------------------------------------------------
\* FrameBuilderStats (frame_builder_cpp.hpp:52-67)
\* ------------------------------------------------------------------------
FrameBuilderStats ==
    [frames_built |-> 0, packets_added |-> 0, points_added |-> 0,
     late_packets |-> 0, seq_gaps |-> 0, seq_reorders |-> 0,
     overflow_frames |-> 0]

\* ------------------------------------------------------------------------
\* FrameBuilder::FrameBuilder (frame_builder_cpp.cpp:74-90)
\* g_recs is a history field: the records admitted since the frame was
\* opened, each [k, ts, seq, n]; it is written where the code writes
\* current_pkt_count_ and never read by the modelled code.
\* ------------------------------------------------------------------------
FrameBuilder(frame_period_ns, max_frame_points) ==
    [frame_period_ns_        |-> frame_period_ns,
     max_frame_points_       |-> max_frame_points,
     stats_                  |-> FrameBuilderStats,
     point_buffer_           |-> <<>>,
     current_point_count_    |-> 0,
     current_frame_start_ts_ |-> -1,
     current_frame_end_ts_   |-> -1,
     current_seq_first_      |-> 0,
     current_seq_last_       |-> 0,
     current_pkt_count_      |-> 0,
     last_seq_               |-> nullopt,
     g_recs                  |-> <<>>]

\* FrameBuilder::is_sequence_gap (frame_builder_cpp.cpp:357-361)
is_sequence_gap(current_seq, last_seq) ==
    LET expected == (last_seq + 1) % UINT32_MOD
    IN  (current_seq # expected) /\ (current_seq > last_seq)

\* variant: a backward jump of exactly 1000 is taken for a reorder
is_sequence_reorder_le(current_seq, last_seq) ==
    current_seq < last_seq /\ ((last_seq - current_seq) % UINT32_MOD <= 1000)

\* FrameBuilder::is_sequence_reorder (frame_builder_cpp.cpp:363-366)
is_sequence_reorder(current_seq, last_seq) ==
    current_seq < last_seq /\ ((last_seq - current_seq) % UINT32_MOD < 1000)

\* FrameBuilder::start_new_frame (frame_builder_cpp.cpp:221-229)
start_new_frame(self, device_ts_ns, seq) ==
    [self EXCEPT !.current_frame_start_ts_ = device_ts_ns,
                 !.current_frame_end_ts_   = device_ts_ns,
                 !.current_seq_first_      = seq,
                 !.current_seq_last_       = seq,
                 !.current_pkt_count_      = 0,
                 !.current_point_count_    = 0,
                 !.point_buffer_           = <<>>,
                 !.g_recs                  = <<>>]

\* Variant: the copy always writes at the front of the buffer
CopyIntoBuffer_front(buf, offset, xyz_data) ==
    LET need  == offset + Len(xyz_data)
        size  == IF Len(buf) < need THEN need ELSE Len(buf)
    IN  [i \in 1..size |->
            IF i <= Len(xyz_data) THEN xyz_data[i]
            ELSE IF i <= Len(buf) THEN buf[i] ELSE <<0, 0>>]

\* std::memcpy(&point_buffer_[offset], xyz_data, bytes) after the resize of
\* frame_builder_cpp.cpp:276-278
CopyIntoBuffer(buf, offset, xyz_data) ==
    LET need  == offset + Len(xyz_data)
        size  == IF Len(buf) < need THEN need ELSE Len(buf)
    IN  [i \in 1..size |->
            IF i > offset /\ i <= need THEN xyz_data[i - offset]
            ELSE IF i <= Len(buf) THEN buf[i] ELSE <<0, 0>>]

\* Variant: add_to_current_frame whose overflow test ignores the points of the record
add_to_current_frame_nosum(self, device_ts_ns, xyz_data, point_count, seq, k) ==
    LET gap == has_value(self.last_seq_)
                 /\ is_sequence_gap(seq, value(self.last_seq_))
        reo == has_value(self.last_seq_)
                 /\ is_sequence_reorder(seq, value(self.last_seq_))
        s1  == [self EXCEPT
                  !.stats_.seq_gaps = @ + (IF gap THEN 1 ELSE 0),
                  !.stats_.seq_reorders = @ + (IF reo THEN 1 ELSE 0),
                  !.last_seq_ = Some(seq)]
    IN  IF s1.current_point_count_ > s1.max_frame_points_
        THEN [s1 EXCEPT !.stats_.overflow_frames = @ + 1]
        ELSE LET offset == s1.current_point_count_ * 3
             IN  [s1 EXCEPT
                    !.point_buffer_ = CopyIntoBuffer(@, offset, xyz_data),
                    !.current_point_count_  = @ + point_count,
                    !.current_frame_end_ts_ = device_ts_ns,
                    !.current_seq_last_     = seq,
                    !.current_pkt_count_    = @ + 1,
                    !.stats_.packets_added  = @ + 1,
                    !.stats_.points_added   = @ + point_count,
                    !.g_recs = Append(@, [k |-> k, ts |-> device_ts_ns,
                                          seq |-> seq, n |-> point_count])]

\* Variant: add_to_current_frame that updates end_ts and seq_last before the overflow test
add_to_current_frame_meta_first(self, device_ts_ns, xyz_data, point_count, seq, k) ==
    LET gap == has_value(self.last_seq_)
                 /\ is_sequence_gap(seq, value(self.last_seq_))
        reo == has_value(self.last_seq_)
                 /\ is_sequence_reorder(seq, value(self.last_seq_))
        s1  == [self EXCEPT
                  !.stats_.seq_gaps = @ + (IF gap THEN 1 ELSE 0),
                  !.stats_.seq_reorders = @ + (IF reo THEN 1 ELSE 0),
                  !.last_seq_ = Some(seq)]
    IN  IF s1.current_point_count_ + point_count > s1.max_frame_points_
        THEN [s1 EXCEPT !.stats_.overflow_frames = @ + 1,
                        !.current_frame_end_ts_ = device_ts_ns,
                        !.current_seq_last_ = seq]
        ELSE LET offset == s1.current_point_count_ * 3
             IN  [s1 EXCEPT
                    !.point_buffer_ = CopyIntoBuffer(@, offset, xyz_data),
                    !.current_point_count_  = @ + point_count,
                    !.current_frame_end_ts_ = device_ts_ns,
                    !.current_seq_last_     = seq,
                    !.current_pkt_count_    = @ + 1,
                    !.stats_.packets_added  = @ + 1,
                    !.stats_.points_added   = @ + point_count,
                    !.g_recs = Append(@, [k |-> k, ts |-> device_ts_ns,
                                          seq |-> seq, n |-> point_count])]

\* FrameBuilder::add_to_current_frame (frame_builder_cpp.cpp:231-303)
\* k is the index of the add_packet call (identifies the record).
add_to_current_frame(self, device_ts_ns, xyz_data, point_count, seq, k) ==
    LET gap == has_value(self.last_seq_)
                 /\ is_sequence_gap(seq, value(self.last_seq_))
        reo == has_value(self.last_seq_)
                 /\ is_sequence_reorder(seq, value(self.last_seq_))
        s1  == [self EXCEPT
                  !.stats_.seq_gaps = @ + (IF gap THEN 1 ELSE 0),
                  !.stats_.seq_reorders = @ + (IF reo THEN 1 ELSE 0),
                  !.last_seq_ = Some(seq)]
    IN  IF s1.current_point_count_ + point_count > s1.max_frame_points_
        THEN [s1 EXCEPT !.stats_.overflow_frames = @ + 1]
        ELSE LET offset == s1.current_point_count_ * 3
             IN  [s1 EXCEPT
                    !.point_buffer_ = CopyIntoBuffer(@, offset, xyz_data),
                    !.current_point_count_  = @ + point_count,
                    !.current_frame_end_ts_ = device_ts_ns,
                    !.current_seq_last_     = seq,
                    !.current_pkt_count_    = @ + 1,
                    !.stats_.packets_added  = @ + 1,
                    !.stats_.points_added   = @ + point_count,
                    !.g_recs = Append(@, [k |-> k, ts |-> device_ts_ns,
                                          seq |-> seq, n |-> point_count])]

\* FrameBuilder::close_current_frame (frame_builder_cpp.cpp:305-354)
\* returns the builder after the call and the optional frame
close_current_frame(self) ==
    IF self.current_point_count_ = 0
    THEN [self |-> self, frame |-> nullopt]
    ELSE [self  |-> [self EXCEPT !.stats_.frames_built = @ + 1,
                                 !.current_point_count_ = 0,
                                 !.current_frame_start_ts_ = -1],
          frame |-> Some(
             [xyz_data    |-> SubSeq(self.point_buffer_, 1,
                                     self.current_point_count_ * 3),
              point_count |-> self.current_point_count_,
              start_ts_ns |-> self.current_frame_start_ts_,
              end_ts_ns   |-> self.current_frame_end_ts_,
              seq_first   |-> self.current_seq_first_,
              seq_last    |-> self.current_seq_last_,
              pkt_count   |-> self.current_pkt_count_,
              g_recs      |-> self.g_recs])]

\* Variant: add_packet with the window test > in place of >=
add_packet_gt(self, device_ts_ns, xyz_data, point_count, seq, k) ==
    LET s0 == IF self.current_frame_start_ts_ < 0
              THEN start_new_frame(self, device_ts_ns, seq)
              ELSE self
    IN  IF device_ts_ns < s0.current_frame_start_ts_
        THEN [self   |-> [s0 EXCEPT !.stats_.late_packets = @ + 1],
              frame  |-> nullopt,
              branch |-> "late"]
        ELSE IF device_ts_ns > s0.current_frame_start_ts_ + s0.frame_period_ns_
        THEN LET c  == close_current_frame(s0)
                 s2 == start_new_frame(c.self, device_ts_ns, seq)
             IN  [self   |-> add_to_current_frame(s2, device_ts_ns, xyz_data,
                                                  point_count, seq, k),
                  frame  |-> c.frame,
                  branch |-> "rollover"]
        ELSE [self   |-> add_to_current_frame(s0, device_ts_ns, xyz_data,
                                              point_count, seq, k),
              frame  |-> nullopt,
              branch |-> "add"]

\* Variant: add_packet that counts a late record and then adds it all the same
add_packet_late_added(self, device_ts_ns, xyz_data, point_count, seq, k) ==
    LET s0 == IF self.current_frame_start_ts_ < 0
              THEN start_new_frame(self, device_ts_ns, seq)
              ELSE self
    IN  IF device_ts_ns < s0.current_frame_start_ts_
        THEN [self   |-> add_to_current_frame(
                            [s0 EXCEPT !.stats_.late_packets = @ + 1],
                            device_ts_ns, xyz_data, point_count, seq, k),
              frame  |-> nullopt,
              branch |-> "late"]
        ELSE IF device_ts_ns >= s0.current_frame_start_ts_ + s0.frame_period_ns_
        THEN LET c  == close_current_frame(s0)
                 s2 == start_new_frame(c.self, device_ts_ns, seq)
             IN  [self   |-> add_to_current_frame(s2, device_ts_ns, xyz_data,
                                                  point_count, seq, k),
                  frame  |-> c.frame,
                  branch |-> "rollover"]
        ELSE [self   |-> add_to_current_frame(s0, device_ts_ns, xyz_data,
                                              point_count, seq, k),
              frame  |-> nullopt,
              branch |-> "add"]

\* Variant: add_packet that opens the new frame on roll-over without adding the record
add_packet_roll_skip(self, device_ts_ns, xyz_data, point_count, seq, k) ==
    LET s0 == IF self.current_frame_start_ts_ < 0
              THEN start_new_frame(self, device_ts_ns, seq)
              ELSE self
    IN  IF device_ts_ns < s0.current_frame_start_ts_
        THEN [self   |-> [s0 EXCEPT !.stats_.late_packets = @ + 1],
              frame  |-> nullopt,
              branch |-> "late"]
        ELSE IF device_ts_ns >= s0.current_frame_start_ts_ + s0.frame_period_ns_
        THEN LET c  == close_current_frame(s0)
                 s2 == start_new_frame(c.self, device_ts_ns, seq)
             IN  [self   |-> s2,
                  frame  |-> c.frame,
                  branch |-> "rollover"]
        ELSE [self   |-> add_to_current_frame(s0, device_ts_ns, xyz_data,
                                              point_count, seq, k),
              frame  |-> nullopt,
              branch |-> "add"]

\* Variant: add_packet that drops a late record without counting it
add_packet_late_uncounted(self, device_ts_ns, xyz_data, point_count, seq, k) ==
    LET s0 == IF self.current_frame_start_ts_ < 0
              THEN start_new_frame(self, device_ts_ns, seq)
              ELSE self
    IN  IF device_ts_ns < s0.current_frame_start_ts_
        THEN [self   |-> s0,
              frame  |-> nullopt,
              branch |-> "late"]
        ELSE IF device_ts_ns >= s0.current_frame_start_ts_ + s0.frame_period_ns_
        THEN LET c  == close_current_frame(s0)
                 s2 == start_new_frame(c.self, device_ts_ns, seq)
             IN  [self   |-> add_to_current_frame(s2, device_ts_ns, xyz_data,
                                                  point_count, seq, k),
                  frame  |-> c.frame,
                  branch |-> "rollover"]
        ELSE [self   |-> add_to_current_frame(s0, device_ts_ns, xyz_data,
                                              point_count, seq, k),
              frame  |-> nullopt,
              branch |-> "add"]

\* FrameBuilder::add_packet (frame_builder_cpp.cpp:92-139)
\* branch names the return statement taken: "late" (line 115),
\* "rollover" (line 132) or "add" (line 138)
add_packet(self, device_ts_ns, xyz_data, point_count, seq, k) ==
    LET s0 == IF self.current_frame_start_ts_ < 0
              THEN start_new_frame(self, device_ts_ns, seq)
              ELSE self
    IN  IF device_ts_ns < s0.current_frame_start_ts_
        THEN [self   |-> [s0 EXCEPT !.stats_.late_packets = @ + 1],
              frame  |-> nullopt,
              branch |-> "late"]
        ELSE IF device_ts_ns >= s0.current_frame_start_ts_ + s0.frame_period_ns_
        THEN LET c  == close_current_frame(s0)
                 s2 == start_new_frame(c.self, device_ts_ns, seq)
             IN  [self   |-> add_to_current_frame(s2, device_ts_ns, xyz_data,
                                                  point_count, seq, k),
                  frame  |-> c.frame,
                  branch |-> "rollover"]
        ELSE [self   |-> add_to_current_frame(s0, device_ts_ns, xyz_data,
                                              point_count, seq, k),
              frame  |-> nullopt,
              branch |-> "add"]

\* FrameBuilder::flush (frame_builder_cpp.cpp:141-153)
\* variant: flush closes the open frame and returns nothing
flush_discard(self) ==
    IF self.current_frame_start_ts_ < 0
    THEN [self |-> self, frame |-> nullopt]
    ELSE [self |-> close_current_frame(self).self, frame |-> nullopt]

flush(self) ==
    IF self.current_frame_start_ts_ < 0
    THEN [self |-> self, frame |-> nullopt]
    ELSE close_current_frame(self)

\* FrameBuilder::reset (frame_builder_cpp.cpp:206-215)
\* variant: reset keeps the last seen sequence number
reset_keep_last_seq(self) ==
    [self EXCEPT !.current_point_count_    = 0,
                 !.current_frame_start_ts_ = -1,
                 !.current_frame_end_ts_   = -1,
                 !.current_seq_first_      = 0,
                 !.current_seq_last_       = 0,
                 !.current_pkt_count_      = 0,
                 !.point_buffer_           = <<>>,
                 !.g_recs                  = <<>>]

reset(self) ==
    [self EXCEPT !.current_point_count_    = 0,
                 !.current_frame_start_ts_ = -1,
                 !.current_frame_end_ts_   = -1,
                 !.current_seq_first_      = 0,
                 !.current_seq_last_       = 0,
                 !.current_pkt_count_      = 0,
                 !.last_seq_               = nullopt,
                 !.point_buffer_           = <<>>,
                 !.g_recs                  = <<>>]

\* ------------------------------------------------------------------------
\* The state machine: a client constructs a builder and calls its public
\* member functions in any order with any arguments.
\* ------------------------------------------------------------------------
NoCall == [op |-> "ctor", ts |-> 0, n |-> 0, seq |-> 0, k |-> 0,
           branch |-> "none"]

Init ==
    /\ builder = FrameBuilder(FRAME_PERIOD_NS, MAX_FRAME_POINTS)
    /\ ret = nullopt
    /\ last_call = NoCall
    /\ emitted = {}
    /\ out = NoFrames /\ external_stats_ = nullopt
    /\ ncalls = 0
    /\ nctl = 0
    /\ NoParser
    /\ NoSender
    /\ NoProcess

\* the floats of the frame returned by the last call join the emitted ones
Range(f) == {f[i] : i \in DOMAIN f}
Emit == emitted \cup UNION {Range(ret[i].xyz_data) : i \in 1..Len(ret)}

AddPacket ==
    /\ ncalls < MaxCalls
    /\ \E ts \in TsSet, n \in CountSet, seq \in SeqSet :
         LET k == ncalls + 1
             r == add_packet(builder, ts, XyzData(k, n), n, seq, k)
         IN  /\ builder' = r.self
             /\ ret' = r.frame
             /\ emitted' = Emit
             /\ UNCHANGED external_stats_
             /\ out' = Returned(r.frame, ts >= 0 /\ n >= 1)
             /\ last_call' = [op |-> "add_packet", ts |-> ts, n |-> n,
                              seq |-> seq, k |-> k, branch |-> r.branch]
    /\ ncalls' = ncalls + 1
    /\ UNCHANGED nctl
    /\ UNCHANGED <<protoVars, txVars, procVars>>

Flush ==
    /\ nctl < MaxCtl
    /\ LET r == flush(builder)
       IN  /\ builder' = r.self
           /\ ret' = r.frame
           /\ emitted' = Emit
           /\ UNCHANGED external_stats_
           /\ out' = Returned(r.frame, FALSE)
    /\ last_call' = [NoCall EXCEPT !.op = "flush"]
    /\ nctl' = nctl + 1
    /\ UNCHANGED ncalls
    /\ UNCHANGED <<protoVars, txVars, procVars>>

Reset ==
    /\ nctl < MaxCtl
    /\ builder' = reset(builder)
    /\ ret' = nullopt
    /\ last_call' = [NoCall EXCEPT !.op = "reset"]
    /\ nctl' = nctl + 1
    /\ emitted' = Emit
    /\ UNCHANGED external_stats_
    /\ out' = Returned(nullopt, FALSE)
    /\ UNCHANGED ncalls
    /\ UNCHANGED <<protoVars, txVars, procVars>>

Next == AddPacket \/ Flush \/ Reset

Spec == Init /\ [][Next]_vars

\* ------------------------------------------------------------------------
\* Vocabulary of the properties
\* ------------------------------------------------------------------------
\* the frame returned by the last call
F == value(ret)

\* timestamps of a set of records
TsOf(recs) == {r.ts : r \in recs}

\* the records whose points are in a frame: the records copied into the
\* buffer since the frame was opened that carry at least one point
\* (C9 relates them to the floats of the frame)
Contributing(frame) == {r \in Range(frame.g_recs) : r.n >= 1}

RECURSIVE ConcatXyz(_)
\* the floats of a sequence of records, record after record
ConcatXyz(recs) ==
    IF recs = <<>> THEN <<>>
    ELSE XyzData(recs[1].k, recs[1].n) \o ConcatXyz(Tail(recs))

RECURSIVE SumPoints(_)
\* the point counts of a sequence of records, added up
SumPoints(recs) ==
    IF recs = <<>> THEN 0 ELSE recs[1].n + SumPoints(Tail(recs))

\* the last call was add_packet and its record was copied into the buffer
Admitted ==
    /\ last_call.op = "add_packet"
    /\ builder.g_recs # <<>>
    /\ builder.g_recs[Len(builder.g_recs)].k = last_call.k

\* ------------------------------------------------------------------------
\* C1: every frame returned by add_packet or flush has
\*     start_ts_ns <= end_ts_ns < start_ts_ns + frame_period.
\* ------------------------------------------------------------------------
C1_FrameSpan ==
    has_value(ret) =>
        /\ F.start_ts_ns <= F.end_ts_ns
        /\ F.end_ts_ns < F.start_ts_ns + builder.frame_period_ns_

\* a frame is returned whose last record is later than its first
C1_Witness ==
    /\ has_value(ret)
    /\ F.pkt_count >= 2
    /\ F.end_ts_ns > F.start_ts_ns

\* ------------------------------------------------------------------------
\* C2: in every returned frame end_ts_ns is the maximum timestamp of the
\*     records whose points are in the frame: it is the timestamp of a
\*     record of the frame, and every record whose points are in the frame
\*     has start_ts_ns <= ts <= end_ts_ns, in every arrival order.
\* ------------------------------------------------------------------------
C2_EndIsMax ==
    has_value(ret) =>
        /\ \A r \in Contributing(F) :
              F.start_ts_ns <= r.ts /\ r.ts <= F.end_ts_ns
        /\ F.end_ts_ns \in TsOf(Range(F.g_recs))

\* ------------------------------------------------------------------------
\* C3: the open frame never holds more than max_frame_points points, and
\*     every returned frame has point_count <= max_frame_points.
\* ------------------------------------------------------------------------
C3_Capacity ==
    /\ builder.current_point_count_ <= builder.max_frame_points_
    /\ Len(builder.point_buffer_) <= builder.max_frame_points_ * 3
    /\ has_value(ret) => F.point_count <= builder.max_frame_points_

\* the open frame is full and a record that did not fit was dropped from it
C3_Witness ==
    /\ builder.current_frame_start_ts_ >= 0
    /\ builder.current_point_count_ = builder.max_frame_points_
    /\ last_call.op = "add_packet"
    /\ last_call.branch = "add"
    /\ last_call.n >= 1
    /\ ~Admitted

\* ------------------------------------------------------------------------
\* Steps and their arguments, for the properties of single calls
\* ------------------------------------------------------------------------
\* a frame is open before the call (frame_builder_cpp.hpp:124)
Open == builder.current_frame_start_ts_ >= 0

\* this step is a call of add_packet / flush
AddPacketStep == ncalls' = ncalls + 1 /\ last_call'.op = "add_packet"
FlushStep == nctl' = nctl + 1 /\ last_call'.op = "flush"

\* the record passed by this step's add_packet call
ArgTs == last_call'.ts
ArgSeq == last_call'.seq
ArgCount == last_call'.n
ArgRec == [k |-> last_call'.k, ts |-> ArgTs, seq |-> ArgSeq, n |-> ArgCount]

\* the three classes of a record against the open frame
IsLate == ArgTs < builder.current_frame_start_ts_
IsRollOver ==
    ArgTs >= builder.current_frame_start_ts_ + builder.frame_period_ns_
IsInWindow == ~IsLate /\ ~IsRollOver

\* what each class does to the builder
LateEffect ==
    /\ last_call'.branch = "late"
    /\ builder'.stats_.late_packets = builder.stats_.late_packets + 1
    /\ builder'.current_frame_start_ts_ = builder.current_frame_start_ts_
RollOverEffect ==
    /\ last_call'.branch = "rollover"
    /\ builder'.stats_.late_packets = builder.stats_.late_packets
    /\ builder'.current_frame_start_ts_ = ArgTs
    /\ builder'.current_frame_start_ts_ # builder.current_frame_start_ts_
InWindowEffect ==
    /\ last_call'.branch = "add"
    /\ builder'.stats_.late_packets = builder.stats_.late_packets
    /\ builder'.current_frame_start_ts_ = builder.current_frame_start_ts_
    /\ builder'.last_seq_ = Some(ArgSeq)

\* ------------------------------------------------------------------------
\* C4: with a frame open at start_ts, add_packet treats a record as late
\*     iff ts < start_ts, as a roll-over iff ts >= start_ts + frame_period,
\*     and as in-window otherwise; exactly one of the three happens.
\* ------------------------------------------------------------------------
C4_Classification ==
    [][ (Open /\ AddPacketStep) =>
          /\ LateEffect <=> IsLate
          /\ RollOverEffect <=> IsRollOver
          /\ InWindowEffect <=> IsInWindow ]_vars

\* a record with ts = start_ts + frame_period - 1 was added to the open frame
C4_Witness ==
    /\ last_call.op = "add_packet"
    /\ last_call.branch = "add"
    /\ builder.current_frame_start_ts_ >= 0
    /\ builder.frame_period_ns_ >= 2
    /\ last_call.ts =
         builder.current_frame_start_ts_ + builder.frame_period_ns_ - 1

\* ------------------------------------------------------------------------
\* C5: a late record makes add_packet return no frame, adds one to
\*     late_packets and changes nothing else (buffer, counts, start_ts,
\*     end_ts, seq_first, seq_last, last seen sequence number, the other
\*     counters); no returned frame holds a record with ts < start_ts_ns.
\* ------------------------------------------------------------------------
C5_LateDrop ==
    [][ /\ (Open /\ AddPacketStep /\ IsLate) =>
              /\ ret' = nullopt
              /\ builder' = [builder EXCEPT !.stats_.late_packets = @ + 1]
        /\ has_value(ret') =>
              \A r \in Contributing(F') : r.ts >= F'.start_ts_ns ]_vars

\* a late record has just been dropped from a frame that holds records
C5_Witness ==
    /\ last_call.op = "add_packet"
    /\ last_call.branch = "late"
    /\ last_call.ts < builder.current_frame_start_ts_
    /\ last_call.n >= 1
    /\ builder.current_point_count_ >= 1

C7_Overflow ==
    [][ (Open /\ AddPacketStep /\ IsInWindow) =>
          IF builder.current_point_count_ + ArgCount
                > builder.max_frame_points_
          THEN /\ ret' = nullopt
               /\ builder'.stats_ =
                    [builder.stats_ EXCEPT
                       !.overflow_frames = @ + 1,
                       !.seq_gaps = builder'.stats_.seq_gaps,
                       !.seq_reorders = builder'.stats_.seq_reorders]
               /\ builder'.current_frame_start_ts_ =
                    builder.current_frame_start_ts_
               /\ builder'.point_buffer_ = builder.point_buffer_
               /\ builder'.current_point_count_ = builder.current_point_count_
               /\ builder'.current_pkt_count_ = builder.current_pkt_count_
               /\ builder'.current_frame_end_ts_ = builder.current_frame_end_ts_
               /\ builder'.current_seq_first_ = builder.current_seq_first_
               /\ builder'.current_seq_last_ = builder.current_seq_last_
               /\ builder'.g_recs = builder.g_recs
          ELSE /\ ret' = nullopt
               /\ builder'.stats_.overflow_frames =
                    builder.stats_.overflow_frames
               /\ builder'.stats_.packets_added =
                    builder.stats_.packets_added + 1
               /\ builder'.stats_.points_added =
                    builder.stats_.points_added + ArgCount
               /\ builder'.current_point_count_ =
                    builder.current_point_count_ + ArgCount
               /\ builder'.current_pkt_count_ = builder.current_pkt_count_ + 1
               /\ builder'.point_buffer_ =
                    builder.point_buffer_ \o XyzData(ArgRec.k, ArgRec.n)
               /\ builder'.g_recs = Append(builder.g_recs, ArgRec) ]_vars

\* the first and the third record are in the open frame; the second was
\* dropped from it for overflow (it was not late and did not roll over)
C7_Witness ==
    /\ Admitted
    /\ last_call.k = 3
    /\ Len(builder.g_recs) = 2
    /\ builder.g_recs[1].k = 1
    /\ builder.stats_.overflow_frames = 1
    /\ builder.stats_.late_packets = 0

\* ------------------------------------------------------------------------
\* C8: flush() returns the open frame whenever a frame is open and returns
\*     nothing only when no frame is open; after flush() no frame is open,
\*     so a second flush() returns nothing and the next add_packet opens a
\*     new frame seeded from its own record.
\* ------------------------------------------------------------------------
C8_Flush ==
    [][ /\ FlushStep =>
              /\ has_value(ret') <=> Open
              /\ builder'.current_frame_start_ts_ < 0
        /\ (last_call.op = "flush" /\ FlushStep) => ret' = nullopt
        /\ (last_call.op = "flush" /\ AddPacketStep) =>
              /\ last_call'.branch = "add"
              /\ builder'.current_frame_start_ts_ = ArgTs
              /\ builder'.current_seq_first_ = ArgSeq ]_vars

\* ------------------------------------------------------------------------
\* C9: every returned frame has point_count >= 1; its xyz data is the
\*     concatenation, in admission order, of the points of exactly the
\*     records admitted since the frame was opened; pkt_count is the number
\*     of those records and point_count the sum of their point counts; no
\*     point of an earlier returned frame is in it.
\* ------------------------------------------------------------------------
C9_FrameContent ==
    has_value(ret) =>
        /\ F.point_count >= 1
        /\ F.xyz_data = ConcatXyz(F.g_recs)
        /\ F.pkt_count = Len(F.g_recs)
        /\ F.point_count = SumPoints(F.g_recs)
        /\ Len(F.xyz_data) = F.point_count * 3
        /\ Range(F.xyz_data) \cap emitted = {}

\* a second frame is returned and it holds two records
C9_Witness ==
    /\ has_value(ret)
    /\ emitted # {}
    /\ F.pkt_count = 2
    /\ F.point_count = 2

\* ------------------------------------------------------------------------
\* C10: in every returned frame seq_first and start_ts_ns are the sequence
\*      number and timestamp of the first record admitted to the frame and
\*      seq_last is the sequence number of the last one; a dropped record
\*      supplies none of them.
\* ------------------------------------------------------------------------
C10_FirstLast ==
    has_value(ret) =>
        /\ F.g_recs # <<>>
        /\ F.seq_first = F.g_recs[1].seq
        /\ F.start_ts_ns = F.g_recs[1].ts
        /\ F.seq_last = F.g_recs[Len(F.g_recs)].seq

\* ========================================================================
\* Wire protocol: the sender (SLAM/lidar_tx/lidar_stream.cpp) and the
\* receiver's parser (SLAM/slam_rx/cpp/src/lidar_protocol_cpp.cpp).
\*
\* A datagram is the sequence of its bytes (values 0..255), index 1 being
\* byte offset 0.  Both programs run on a little-endian host (the sender
\* refuses to start otherwise), so a packed struct field is the
\* little-endian image of its value.  A 32-bit CRC keeps its full width: it
\* is the tuple of its four bytes, least significant first, because the
\* values do not fit the integers of the model checker.
\* ========================================================================

\* ---- bytes ---------------------------------------------------------------
RECURSIVE LE(_, _)
\* the n little-endian bytes of the unsigned value v
LE(v, n) == IF n = 0 THEN <<>> ELSE <<v % 256>> \o LE(v \div 256, n - 1)

RECURSIVE FromLE(_)
\* the unsigned value of little-endian bytes
FromLE(b) == IF Len(b) = 0 THEN 0 ELSE b[1] + 256 * FromLE(Tail(b))

\* bitwise operations on bytes, tabulated once
RECURSIVE XorBits(_, _, _)
XorBits(a, b, n) ==
    IF n = 0 THEN 0
    ELSE ((a + b) % 2) + 2 * XorBits(a \div 2, b \div 2, n - 1)

Xor4 == [a \in 0..15 |-> [b \in 0..15 |-> XorBits(a, b, 4)]]
Xor8 == [a \in 0..255 |-> [b \in 0..255 |->
            16 * Xor4[a \div 16][b \div 16] + Xor4[a % 16][b % 16]]]

\* uint32_t values as four bytes, least significant first
U32(b0, b1, b2, b3) == <<b0, b1, b2, b3>>
U32_ZERO == U32(0, 0, 0, 0)
U32_ONES == U32(255, 255, 255, 255)
Xor32(x, y) == U32(Xor8[x[1]][y[1]], Xor8[x[2]][y[2]],
                   Xor8[x[3]][y[3]], Xor8[x[4]][y[4]])
\* x >> 1
Shr1(x) == U32(x[1] \div 2 + 128 * (x[2] % 2), x[2] \div 2 + 128 * (x[3] % 2),
               x[3] \div 2 + 128 * (x[4] % 2), x[4] \div 2)
\* x >> 8
Shr8(x) == U32(x[2], x[3], x[4], 0)

\* ---- CRC32, sender side (lidar_stream.cpp:162-198) ------------------------
\* 0xEDB88320, the reflected IEEE 802.3 polynomial
CRC_POLY == U32(32, 131, 184, 237)

RECURSIVE crc32_table_entry(_, _)
\* the inner loop of crc32_init_table: j remaining iterations
crc32_table_entry(crc, j) ==
    IF j = 0 THEN crc
    ELSE crc32_table_entry(IF crc[1] % 2 = 1 THEN Xor32(Shr1(crc), CRC_POLY)
                           ELSE Shr1(crc), j - 1)

crc32_table == [i \in 0..255 |-> crc32_table_entry(U32(i, 0, 0, 0), 8)]

\* one iteration of the byte loop: crc = (crc >> 8) ^ table[(crc ^ b) & 0xFF]
crc32_step(crc, b) == Xor32(Shr8(crc), crc32_table[Xor8[crc[1]][b]])

RECURSIVE crc32_loop(_, _, _, _)
\* the byte loop over data[lo..hi], folded left to right
crc32_loop(crc, data, lo, hi) ==
    IF lo > hi THEN crc
    ELSE IF lo = hi THEN crc32_step(crc, data[lo])
    ELSE LET mid == (lo + hi) \div 2
             left == crc32_loop(crc, data, lo, mid)
         IN  \* the running value after data[lo..mid] is computed first
             IF Len(left) = 4 THEN crc32_loop(left, data, mid + 1, hi)
             ELSE left

crc32_calculate(data) ==
    Xor32(crc32_loop(U32_ONES, data, 1, Len(data)), U32_ONES)

\* ---- CRC32, receiver side: zlib's ::crc32(crc, buf, len) ------------------
\* zlib continues a running IEEE 802.3 CRC: crc32(crc32(0, a), b) is the
\* CRC of a followed by b (lidar_protocol_cpp.cpp:187-192 relies on it).
zlib_crc32(crc, buf) ==
    Xor32(crc32_loop(Xor32(crc, U32_ONES), buf, 1, Len(buf)), U32_ONES)

\* ---- protocol constants ---------------------------------------------------
\* receiver: lidar_protocol_cpp.hpp:9-13 (the sender defines HEADER_SIZE and
\* POINT_SIZE with the same values, lidar_stream.cpp:48-49)
LIDAR_MAGIC == 1279874642
LIDAR_VERSION == 1
HEADER_SIZE == 27
POINT_SIZE == 13
MAX_POINTS_PER_PACKET == 105

\* the bytes of a struct field at byte offset off
Field(data, off, size) == SubSeq(data, off + 1, off + size)

\* struct PacketHeader read in place from the first HEADER_SIZE bytes (packed,
\* little-endian).  crc32 keeps its four bytes.
PacketHeader(data) ==
    [magic        |-> FromLE(Field(data, 0, 4)),
     version      |-> FromLE(Field(data, 4, 1)),
     device_ts_ns |-> FromLE(Field(data, 5, 8)),
     seq          |-> FromLE(Field(data, 13, 4)),
     point_count  |-> FromLE(Field(data, 17, 2)),
     flags        |-> FromLE(Field(data, 19, 2)),
     sensor_id    |-> FromLE(Field(data, 21, 2)),
     crc32        |-> Field(data, 23, 4)]

\* struct Point of the i-th point (i from 0) read in place from the payload.
\* A float is the tuple of its four bytes (reinterpret_cast and memcpy keep
\* the bit image).
Point(data, i) ==
    LET off == HEADER_SIZE + i * POINT_SIZE
    IN  [x |-> Field(data, off, 4), y |-> Field(data, off + 4, 4),
         z |-> Field(data, off + 8, 4), intensity |-> data[off + 13]]

\* static_cast<float>(uint8_t): the float with that integral value
FloatOfU8(v) == <<"float", v>>

\* ---- receiver: class LidarProtocol ----------------------------------------
ProtocolStats ==
    [total_packets |-> 0, valid_packets |-> 0, crc_failures |-> 0,
     bad_magic |-> 0, bad_version |-> 0, len_mismatch |-> 0,
     invalid_count |-> 0]

LidarProtocol(validate_crc) ==
    [validate_crc_ |-> validate_crc, stats_ |-> ProtocolStats]

\* variant: a rejection for a wrong point count is also counted as a
\* length mismatch
Reject_twice(self, c) ==
    [self |-> [self EXCEPT !.stats_[c] = @ + 1,
                           !.stats_.len_mismatch =
                               IF c = "invalid_count" THEN @ + 1 ELSE @],
     result |-> nullopt]

\* the result of a rejected datagram: one more of counter c, no record
Reject(self, c) ==
    [self |-> [self EXCEPT !.stats_[c] = @ + 1], result |-> nullopt]

\* variant: the CRC taken over the whole datagram, CRC field included
CalculatedCrc_whole(data, point_count) ==
    zlib_crc32(U32_ZERO, data)

\* step 7 of parse_datagram: the CRC the receiver recomputes
CalculatedCrc(data, point_count) ==
    zlib_crc32(zlib_crc32(U32_ZERO, Field(data, 0, 23)),
               Field(data, HEADER_SIZE, point_count * POINT_SIZE))

\* step 8 of parse_datagram
ParsedPacket(data, header) ==
    LET n_points == header.point_count
        comp(pt, c) == CASE c = 0 -> pt.x [] c = 1 -> pt.y [] c = 2 -> pt.z
                         [] OTHER -> FloatOfU8(pt.intensity)
    IN  [device_ts_ns |-> header.device_ts_ns,
         seq          |-> header.seq,
         point_count  |-> header.point_count,
         sensor_id    |-> header.sensor_id,
         flags        |-> header.flags,
         crc32        |-> header.crc32,
         points_data  |-> [j \in 1..(n_points * 4) |->
                              comp(Point(data, (j - 1) \div 4), (j - 1) % 4)],
         xyz_data     |-> [j \in 1..(n_points * 3) |->
                              comp(Point(data, (j - 1) \div 3), (j - 1) % 3)]]

\* variant: the point count has no upper limit
parse_datagram_no_upper(self0, data) ==
    LET length == Len(data)
        self   == [self0 EXCEPT !.stats_.total_packets = @ + 1]
        header == PacketHeader(data)
        expected_len == HEADER_SIZE + header.point_count * POINT_SIZE
    IN  IF length < HEADER_SIZE THEN Reject(self, "len_mismatch")
        ELSE IF header.magic # LIDAR_MAGIC THEN Reject(self, "bad_magic")
        ELSE IF header.version # LIDAR_VERSION THEN Reject(self, "bad_version")
        ELSE IF header.point_count < 1 THEN Reject(self, "invalid_count")
        ELSE IF length # expected_len THEN Reject(self, "len_mismatch")
        ELSE IF /\ self.validate_crc_
                /\ header.crc32 # U32_ZERO
                /\ CalculatedCrc(data, header.point_count) # header.crc32
             THEN Reject(self, "crc_failures")
        ELSE [self   |-> [self EXCEPT !.stats_.valid_packets = @ + 1],
              result |-> Some(ParsedPacket(data, header))]

\* variant: the point count is validated before magic and version
parse_datagram_count_first(self0, data) ==
    LET length == Len(data)
        self   == [self0 EXCEPT !.stats_.total_packets = @ + 1]
        header == PacketHeader(data)
        expected_len == HEADER_SIZE + header.point_count * POINT_SIZE
    IN  IF length < HEADER_SIZE THEN Reject(self, "len_mismatch")
        ELSE IF header.point_count < 1
                \/ header.point_count > MAX_POINTS_PER_PACKET
             THEN Reject(self, "invalid_count")
        ELSE IF header.magic # LIDAR_MAGIC THEN Reject(self, "bad_magic")
        ELSE IF header.version # LIDAR_VERSION THEN Reject(self, "bad_version")
        ELSE IF length # expected_len THEN Reject(self, "len_mismatch")
        ELSE IF /\ self.validate_crc_
                /\ header.crc32 # U32_ZERO
                /\ CalculatedCrc(data, header.point_count) # header.crc32
             THEN Reject(self, "crc_failures")
        ELSE [self   |-> [self EXCEPT !.stats_.valid_packets = @ + 1],
              result |-> Some(ParsedPacket(data, header))]

parse_datagram(self0, data) ==
    LET length == Len(data)
        self   == [self0 EXCEPT !.stats_.total_packets = @ + 1]
        header == PacketHeader(data)
        expected_len == HEADER_SIZE + header.point_count * POINT_SIZE
    IN  IF length < HEADER_SIZE THEN Reject(self, "len_mismatch")
        ELSE IF header.magic # LIDAR_MAGIC THEN Reject(self, "bad_magic")
        ELSE IF header.version # LIDAR_VERSION THEN Reject(self, "bad_version")
        ELSE IF header.point_count < 1
                \/ header.point_count > MAX_POINTS_PER_PACKET
             THEN Reject(self, "invalid_count")
        ELSE IF length # expected_len THEN Reject(self, "len_mismatch")
        ELSE IF /\ self.validate_crc_
                /\ header.crc32 # U32_ZERO
                /\ CalculatedCrc(data, header.point_count) # header.crc32
             THEN Reject(self, "crc_failures")
        ELSE [self   |-> [self EXCEPT !.stats_.valid_packets = @ + 1],
              result |-> Some(ParsedPacket(data, header))]

\* ========================================================================
\* Sender: SLAM/lidar_tx/lidar_stream.cpp
\* ========================================================================
PROTOCOL_MAGIC == 1279874642
PROTOCOL_VERSION == 1
MAX_UDP_PAYLOAD == 1400
\* the sender's MAX_POINTS_PER_PACKET (lidar_stream.cpp:50)
\* variant: chunks of one point less
TX_MAX_POINTS_PER_PACKET_short == (MAX_UDP_PAYLOAD - HEADER_SIZE) \div POINT_SIZE - 1
TX_MAX_POINTS_PER_PACKET == (MAX_UDP_PAYLOAD - HEADER_SIZE) \div POINT_SIZE
\* MAX_FILTERED, the capacity of the callback's filter buffer
MAX_FILTERED == 2048
TS_HISTORY_SIZE == 100
LOG_INTERVAL_PACKETS == 500
\* one second in nanoseconds (extract_livox_timestamp)
ONE_SECOND_NS == 1000000000
\* MIN_RANGE 0.1f and MAX_RANGE 20.0f, held in millimetres
MIN_RANGE == 100
MAX_RANGE == 20000
DOWNSAMPLE_FACTOR == 1

\* packet_seq is a uint32_t; the model keeps PACKET_SEQ_BITS bits of it so
\* that a session reaches the wrap-around
PACKET_SEQ_BITS == 2
PACKET_SEQ_MOD == 2^PACKET_SEQ_BITS
UINT32_MAX == PACKET_SEQ_MOD - 1

\* The global state of the process after main() has read its configuration
\* and before the first callback.  Ranges are held in millimetres.
SenderGlobals(crc_enabled, downsample) ==
    [packet_seq               |-> 0,
     stats_tx_packets         |-> 0,
     stats_tx_points          |-> 0,
     stats_tx_bytes           |-> 0,
     stats_dropped_packets    |-> 0,
     stats_filtered_points    |-> 0,
     stats_segmented_packets  |-> 0,
     stats_points_segmented   |-> 0,
     stats_points_dropped_cap |-> 0,
     stats_send_eagain        |-> 0,
     stats_seq_wraps          |-> 0,
     stats_callback_count     |-> 0,
     ts_history               |-> [i \in 0..(TS_HISTORY_SIZE - 1) |-> 0],
     ts_history_idx           |-> 0,
     ts_last                  |-> 0,
     ts_using_fallback        |-> FALSE,
     ts_first_packet          |-> TRUE,
     prev_seq                 |-> 0,
     seq_initialized          |-> FALSE,
     rate_last_time           |-> 0,
     rate_last_packets        |-> 0,
     rate_last_bytes          |-> 0,
     keep_running             |-> 1,
     g_min_range              |-> MIN_RANGE,
     g_max_range              |-> MAX_RANGE,
     g_downsample             |-> downsample,
     g_crc_enabled            |-> crc_enabled]

\* the float v / 1000.0f of a millimetre coordinate v >= 0: its bit image is
\* represented by an injective code of v (three bytes of v and a marker)
MetresFloat(v) == LE(v, 3) \o <<63>>

\* the 13 bytes of a packed struct Point3D
Point3DBytes(pt) == pt.x \o pt.y \o pt.z \o <<pt.intensity>>

\* variant: the offset into the point array is ignored
PointsBytes_from0(points, from, count) ==
    [j \in 1..(count * POINT_SIZE) |->
        Point3DBytes(points[1 + (j - 1) \div POINT_SIZE])
            [((j - 1) % POINT_SIZE) + 1]]

\* the bytes of points[from .. from + count - 1] (indices from 0), as memcpy
\* copies them
PointsBytes(points, from, count) ==
    [j \in 1..(count * POINT_SIZE) |->
        Point3DBytes(points[from + 1 + (j - 1) \div POINT_SIZE])
            [((j - 1) % POINT_SIZE) + 1]]

\* what sendto() returns for a datagram of payload_size bytes
SendtoKinds == {"ok", "eagain", "error", "partial"}
sendto(kind, payload_size) ==
    CASE kind = "ok"      -> [sent |-> payload_size, errno |-> "0"]
      [] kind = "eagain"  -> [sent |-> 0 - 1, errno |-> "EAGAIN"]
      [] kind = "error"   -> [sent |-> 0 - 1, errno |-> "ENETUNREACH"]
      [] kind = "partial" -> [sent |-> payload_size - 1, errno |-> "0"]

\* the first 23 bytes of the packed struct PacketHeader the sender fills in
\* (lidar_stream.cpp:442-453)
HeaderBytes(device_ts, seq, count) ==
    LE(PROTOCOL_MAGIC, 4) \o LE(PROTOCOL_VERSION, 1) \o LE(device_ts, 8)
        \o LE(seq, 4) \o LE(count, 2) \o LE(0, 2) \o LE(0, 2)

\* variant: the CRC taken over the 27 header bytes (CRC field still zero)
\* and the payload
CrcField_full_header(g, header_part, payload_part) ==
    IF g.g_crc_enabled
    THEN crc32_calculate(header_part \o U32_ZERO \o payload_part)
    ELSE U32_ZERO

\* the CRC field the sender writes (lidar_stream.cpp:459-481)
CrcField(g, header_part, payload_part) ==
    IF g.g_crc_enabled THEN crc32_calculate(header_part \o payload_part)
    ELSE U32_ZERO

\* variant: the counter advances by two
NextSeq_twice(g) ==
    LET seq == g.packet_seq
    IN  [g EXCEPT !.packet_seq = (seq + 2) % PACKET_SEQ_MOD,
                  !.stats_seq_wraps =
                      IF g.seq_initialized /\ g.prev_seq = UINT32_MAX /\ seq = 0
                      THEN @ + 1 ELSE @,
                  !.prev_seq = seq,
                  !.seq_initialized = TRUE]

\* variant: a wrap is counted by the call that takes the largest number
NextSeq_wrap_at_max(g) ==
    LET seq == g.packet_seq
    IN  [g EXCEPT !.packet_seq = (seq + 1) % PACKET_SEQ_MOD,
                  !.stats_seq_wraps = IF seq = UINT32_MAX THEN @ + 1 ELSE @,
                  !.prev_seq = seq,
                  !.seq_initialized = TRUE]

\* the sequence number bookkeeping of send_packet (lidar_stream.cpp:427-439)
NextSeq(g) ==
    LET seq == g.packet_seq
    IN  [g EXCEPT !.packet_seq = (seq + 1) % PACKET_SEQ_MOD,
                  !.stats_seq_wraps =
                      IF g.seq_initialized /\ g.prev_seq = UINT32_MAX /\ seq = 0
                      THEN @ + 1 ELSE @,
                  !.prev_seq = seq,
                  !.seq_initialized = TRUE]

\* the statistics send_packet updates after sendto (lidar_stream.cpp:487-507)
\* and its return value
AfterSendto(g, r, count, payload_size) ==
    IF r.sent < 0
    THEN IF r.errno \in {"EAGAIN", "EWOULDBLOCK"}
         THEN [g |-> [g EXCEPT !.stats_dropped_packets = @ + 1,
                               !.stats_send_eagain = @ + 1],
               ret |-> 0 - 1]
         ELSE [g |-> g, ret |-> 0 - 1]
    ELSE IF r.sent # payload_size
    THEN [g |-> g, ret |-> 0 - 1]
    ELSE [g |-> [g EXCEPT !.stats_tx_packets = @ + 1,
                          !.stats_tx_points = @ + count,
                          !.stats_tx_bytes = @ + payload_size],
          ret |-> 0]

\* variant: the sequence number is taken before the point count is tested
send_packet_seq_first(g0, device_ts, points, from, count, kind) ==
    LET payload_size == HEADER_SIZE + count * POINT_SIZE
        seq          == g0.packet_seq
        g1           == NextSeq(g0)
        header_part  == HeaderBytes(device_ts, seq, count)
        payload_part == PointsBytes(points, from, count)
        buffer       == header_part \o CrcField(g1, header_part, payload_part)
                            \o payload_part
        r            == sendto(kind, payload_size)
        a            == AfterSendto(g1, r, count, payload_size)
    IN  IF count = 0 \/ count > TX_MAX_POINTS_PER_PACKET
        THEN [g |-> g1, ret |-> 0 - 1, io |-> nullopt]
        ELSE IF payload_size > MAX_UDP_PAYLOAD
        THEN [g |-> g1, ret |-> 0 - 1, io |-> nullopt]
        ELSE [g |-> a.g, ret |-> a.ret,
              io |-> Some([buffer |-> buffer, len |-> payload_size,
                           sent |-> r.sent, errno |-> r.errno, seq |-> seq])]

\* send_packet(device_ts, points + from, count); kind is what sendto will do.
\* io is the sendto call made: the bytes handed to the socket and the result.
send_packet(g0, device_ts, points, from, count, kind) ==
    LET payload_size == HEADER_SIZE + count * POINT_SIZE
        seq          == g0.packet_seq
        g1           == NextSeq(g0)
        header_part  == HeaderBytes(device_ts, seq, count)
        payload_part == PointsBytes(points, from, count)
        buffer       == header_part \o CrcField(g1, header_part, payload_part)
                            \o payload_part
        r            == sendto(kind, payload_size)
        a            == AfterSendto(g1, r, count, payload_size)
    IN  IF count = 0 \/ count > TX_MAX_POINTS_PER_PACKET
        THEN [g |-> g0, ret |-> 0 - 1, io |-> nullopt]
        ELSE IF payload_size > MAX_UDP_PAYLOAD
        THEN [g |-> g0, ret |-> 0 - 1, io |-> nullopt]
        ELSE [g |-> a.g, ret |-> a.ret,
              io |-> Some([buffer |-> buffer, len |-> payload_size,
                           sent |-> r.sent, errno |-> r.errno, seq |-> seq])]

\* what sendto does to the j-th chunk of a sweep: every send succeeds but
\* the fail_at-th, which fails in the given way (fail_at = 0: none fails)
KindOf(j, fail_at, kind) == IF j = fail_at THEN kind ELSE "ok"

RECURSIVE send_segmented_loop_continue(_, _, _, _, _, _, _, _, _)
\* variant: after a failed send the loop goes on with the next chunk
send_segmented_loop_continue(g, device_ts, points, total_count, remaining, offset, packets_sent, ios, fail) ==
    IF remaining <= 0 THEN [g |-> g, ret |-> packets_sent, ios |-> ios]
    ELSE
      LET batch_size == IF remaining > TX_MAX_POINTS_PER_PACKET
                        THEN TX_MAX_POINTS_PER_PACKET ELSE remaining
          sp == send_packet(g, device_ts, points, offset, batch_size,
                            KindOf(Len(ios) + 1, fail.at, fail.kind))
          ios2 == ios \o sp.io
      IN  send_segmented_loop_continue(
              IF sp.ret # 0
              THEN [sp.g EXCEPT !.stats_points_dropped_cap = @ + batch_size]
              ELSE IF total_count > TX_MAX_POINTS_PER_PACKET
              THEN [sp.g EXCEPT !.stats_segmented_packets = @ + 1,
                                !.stats_points_segmented = @ + batch_size]
              ELSE sp.g,
              device_ts, points, total_count, remaining - batch_size,
              offset + batch_size,
              IF sp.ret = 0 THEN packets_sent + 1 ELSE packets_sent, ios2, fail)

\* variant: a failed send counts only its own batch as dropped
RECURSIVE send_segmented_loop_drop_batch(_, _, _, _, _, _, _, _, _)
send_segmented_loop_drop_batch(g, device_ts, points, total_count, remaining, offset, packets_sent, ios, fail) ==
    IF remaining <= 0 THEN [g |-> g, ret |-> packets_sent, ios |-> ios]
    ELSE
      LET batch_size == IF remaining > TX_MAX_POINTS_PER_PACKET
                        THEN TX_MAX_POINTS_PER_PACKET ELSE remaining
          sp == send_packet(g, device_ts, points, offset, batch_size,
                            KindOf(Len(ios) + 1, fail.at, fail.kind))
          ios2 == ios \o sp.io
      IN  IF sp.ret = 0
          THEN send_segmented_loop_drop_batch(
                   IF total_count > TX_MAX_POINTS_PER_PACKET
                   THEN [sp.g EXCEPT !.stats_segmented_packets = @ + 1,
                                     !.stats_points_segmented = @ + batch_size]
                   ELSE sp.g,
                   device_ts, points, total_count, remaining - batch_size,
                   offset + batch_size, packets_sent + 1, ios2, fail)
          ELSE [g |-> [sp.g EXCEPT !.stats_points_dropped_cap = @ + batch_size],
                ret |-> 0 - 1, ios |-> ios2]

RECURSIVE send_segmented_loop(_, _, _, _, _, _, _, _, _)
\* the while loop of send_segmented; ios collects the sendto calls
send_segmented_loop(g, device_ts, points, total_count, remaining, offset, packets_sent, ios, fail) ==
    IF remaining <= 0 THEN [g |-> g, ret |-> packets_sent, ios |-> ios]
    ELSE
      LET batch_size == IF remaining > TX_MAX_POINTS_PER_PACKET
                        THEN TX_MAX_POINTS_PER_PACKET ELSE remaining
          sp == send_packet(g, device_ts, points, offset, batch_size,
                            KindOf(Len(ios) + 1, fail.at, fail.kind))
          ios2 == ios \o sp.io
      IN  IF sp.ret = 0
          THEN send_segmented_loop(
                   IF total_count > TX_MAX_POINTS_PER_PACKET
                   THEN [sp.g EXCEPT !.stats_segmented_packets = @ + 1,
                                     !.stats_points_segmented = @ + batch_size]
                   ELSE sp.g,
                   device_ts, points, total_count, remaining - batch_size,
                   offset + batch_size, packets_sent + 1, ios2, fail)
          ELSE [g |-> [sp.g EXCEPT !.stats_points_dropped_cap = @ + remaining],
                ret |-> 0 - 1, ios |-> ios2]

send_segmented(g, device_ts, points, total_count, fail) ==
    IF total_count <= 0 THEN [g |-> g, ret |-> 0, ios |-> <<>>]
    ELSE send_segmented_loop(g, device_ts, points, total_count, total_count,
                             0, 0, <<>>, fail)

\* ---- timestamps -----------------------------------------------------------
extract_livox_timestamp_le(g, data, fallback_ts) ==
    LET ts == data.timestamp
        accept == \/ g.ts_first_packet
                  \/ (ts > g.ts_last /\ ts - g.ts_last <= ONE_SECOND_NS)
        g1 == [g EXCEPT !.ts_first_packet = FALSE]
    IN  IF accept
        THEN [g |-> [g1 EXCEPT !.ts_using_fallback = FALSE], ts |-> ts,
              warned |-> FALSE]
        ELSE [g |-> [g1 EXCEPT !.ts_using_fallback = TRUE], ts |-> fallback_ts,
              warned |-> ~g.ts_using_fallback]

extract_livox_timestamp(g, data, fallback_ts) ==
    LET ts == data.timestamp
        accept == \/ g.ts_first_packet
                  \/ (ts > g.ts_last /\ ts - g.ts_last < ONE_SECOND_NS)
        g1 == [g EXCEPT !.ts_first_packet = FALSE]
    IN  IF accept
        THEN [g |-> [g1 EXCEPT !.ts_using_fallback = FALSE], ts |-> ts,
              warned |-> FALSE]
        ELSE [g |-> [g1 EXCEPT !.ts_using_fallback = TRUE], ts |-> fallback_ts,
              warned |-> ~g.ts_using_fallback]

\* ts - ts_last in uint64_t arithmetic; a negative difference wraps and is
\* kept symbolically
U64Sub(a, b) == IF a >= b THEN a - b ELSE <<"2^64 -", b - a>>

update_ts_stats(g, ts) ==
    LET g1 == IF g.ts_last > 0
              THEN [g EXCEPT !.ts_history[g.ts_history_idx] = U64Sub(ts, g.ts_last),
                             !.ts_history_idx = (@ + 1) % TS_HISTORY_SIZE]
              ELSE g
    IN  [g1 EXCEPT !.ts_last = ts]

\* ---- the point-cloud callback ---------------------------------------------
kLivoxLidarCartesianCoordinateHighData == "CartesianHigh"
\* a null LivoxLidarEthernetPacket pointer
nullptr == [null |-> TRUE]

\* variant: a point removed by downsampling is not counted
FilterStep_downsample_uncounted(acc, raw_points, i) ==
    LET g   == acc.g
        raw == raw_points[i + 1]
        d2  == raw.x * raw.x + raw.y * raw.y + raw.z * raw.z
        min2 == g.g_min_range * g.g_min_range
        max2 == g.g_max_range * g.g_max_range
        counted == [acc EXCEPT !.g.stats_filtered_points = @ + 1]
    IN  IF Len(acc.filtered) >= MAX_FILTERED
        THEN [acc EXCEPT !.skipped_overflow = @ + 1]
        ELSE IF raw.x = 0 /\ raw.y = 0 /\ raw.z = 0 THEN counted
        ELSE IF d2 < min2 \/ d2 > max2 THEN counted
        ELSE IF g.g_downsample > 1 /\ (i % g.g_downsample) # 0 THEN acc
        ELSE [acc EXCEPT !.filtered =
                 Append(@, [x |-> MetresFloat(raw.x), y |-> MetresFloat(raw.y),
                            z |-> MetresFloat(raw.z),
                            intensity |-> raw.reflectivity])]

\* one iteration of the filter loop for raw point i (from 0); acc holds the
\* globals, the filtered[] buffer and skipped_overflow
FilterStep(acc, raw_points, i) ==
    LET g   == acc.g
        raw == raw_points[i + 1]
        d2  == raw.x * raw.x + raw.y * raw.y + raw.z * raw.z
        min2 == g.g_min_range * g.g_min_range
        max2 == g.g_max_range * g.g_max_range
        counted == [acc EXCEPT !.g.stats_filtered_points = @ + 1]
    IN  IF Len(acc.filtered) >= MAX_FILTERED
        THEN [acc EXCEPT !.skipped_overflow = @ + 1]
        ELSE IF raw.x = 0 /\ raw.y = 0 /\ raw.z = 0 THEN counted
        ELSE IF d2 < min2 \/ d2 > max2 THEN counted
        ELSE IF g.g_downsample > 1 /\ (i % g.g_downsample) # 0 THEN counted
        ELSE [acc EXCEPT !.filtered =
                 Append(@, [x |-> MetresFloat(raw.x), y |-> MetresFloat(raw.y),
                            z |-> MetresFloat(raw.z),
                            intensity |-> raw.reflectivity])]

RECURSIVE FilterLoop(_, _, _, _)
\* the filter loop over raw points lo..hi, folded left to right
FilterLoop(acc, raw_points, lo, hi) ==
    IF lo > hi THEN acc
    ELSE IF lo = hi THEN FilterStep(acc, raw_points, lo)
    ELSE LET mid == (lo + hi) \div 2
             left == FilterLoop(acc, raw_points, lo, mid)
         IN  \* the iterations lo..mid are computed first
             IF left.skipped_overflow >= 0
             THEN FilterLoop(left, raw_points, mid + 1, hi)
             ELSE left

\* the periodic logging block (lidar_stream.cpp:647-691): what it writes
RateLog(g, now) ==
    IF g.stats_callback_count % LOG_INTERVAL_PACKETS # 0 THEN g
    ELSE IF \/ (now - g.rate_last_time >= ONE_SECOND_NS /\ g.rate_last_time > 0)
            \/ g.rate_last_time = 0
    THEN [g EXCEPT !.rate_last_time = now,
                   !.rate_last_packets = g.stats_tx_packets,
                   !.rate_last_bytes = g.stats_tx_bytes]
    ELSE g

\* PointCloudCallback(handle, dev_type, data, client_data).  fallback_ts and
\* now are the two readings of the host clock, fail tells which sendto fails.
PointCloudCallback(g0, data, fallback_ts, now, fail) ==
    IF g0.keep_running = 0 THEN [g |-> g0, ios |-> <<>>, warned |-> FALSE]
    ELSE IF data = nullptr THEN [g |-> g0, ios |-> <<>>, warned |-> FALSE]
    ELSE IF data.data_type # kLivoxLidarCartesianCoordinateHighData
    THEN [g |-> g0, ios |-> <<>>, warned |-> FALSE]
    ELSE
      LET e   == extract_livox_timestamp(g0, data, fallback_ts)
          device_ts == e.ts
          g1  == update_ts_stats(e.g, device_ts)
          f   == FilterLoop([g |-> g1, filtered |-> <<>>, skipped_overflow |-> 0],
                            data.data, 0, data.dot_num - 1)
          g2  == IF f.skipped_overflow > 0
                 THEN [f.g EXCEPT !.stats_points_dropped_cap = @ + f.skipped_overflow]
                 ELSE f.g
          filtered_count == Len(f.filtered)
          ss  == IF filtered_count > 0
                 THEN send_segmented(g2, device_ts, f.filtered, filtered_count, fail)
                 ELSE [g |-> g2, ret |-> 0, ios |-> <<>>]
          g3  == [ss.g EXCEPT !.stats_callback_count = @ + 1]
      IN  [g |-> RateLog(g3, now), ios |-> ss.ios, warned |-> e.warned]

\* ========================================================================
\* Specification of the parser: a LidarProtocol object, built with checksum
\* validation on or off, is given datagrams from the network.
\* ========================================================================
\* number of parse_datagram calls in a run
MaxParse == 2

\* the 13 bytes of the i-th point of a datagram from the network
WirePoint(i) ==
    Point3DBytes([x |-> MetresFloat(1000 + i), y |-> MetresFloat(2000 + i),
                  z |-> MetresFloat(3000 + i), intensity |-> (200 + i) % 256])

WirePayload(npts) ==
    [j \in 1..(npts * POINT_SIZE) |->
        WirePoint(1 + (j - 1) \div POINT_SIZE)[((j - 1) % POINT_SIZE) + 1]]

\* A datagram whose header announces `count` points and which carries npts
\* points.  crc is "zero" (not computed), "good" (the IEEE 802.3 CRC of bytes
\* [0..22] and the payload) or "bad" (that value with one bit flipped).
Datagram(magic, version, count, npts, crc) ==
    LET head == LE(magic, 4) \o LE(version, 1) \o LE(5, 8) \o LE(7, 4)
                    \o LE(count, 2) \o LE(0, 2) \o LE(0, 2)
        payload == WirePayload(npts)
        good == crc32_calculate(head \o payload)
    IN  head
        \o (CASE crc = "zero" -> U32_ZERO
              [] crc = "good" -> good
              [] crc = "bad"  -> Xor32(good, U32(1, 0, 0, 0)))
        \o payload

\* Datagrams from the network.  Small ones with every combination of magic,
\* version, announced and carried point count and checksum; ones at the
\* limits of the point count; and ones shorter than a header.
SmallDatagrams ==
    { Datagram(m, v, c, n, k) :
        m \in {LIDAR_MAGIC, LIDAR_MAGIC + 1},
        v \in {LIDAR_VERSION, LIDAR_VERSION + 1},
        c \in 0..2, n \in 0..2, k \in {"zero", "good", "bad"} }
LimitDatagrams ==
    { Datagram(LIDAR_MAGIC, LIDAR_VERSION, c, n, "zero") :
        c \in {MAX_POINTS_PER_PACKET, MAX_POINTS_PER_PACKET + 1},
        n \in {MAX_POINTS_PER_PACKET, MAX_POINTS_PER_PACKET + 1} }
ShortDatagrams ==
    { SubSeq(d, 1, n) : d \in { Datagram(m, LIDAR_VERSION, c, 1, "good") :
                                  m \in {LIDAR_MAGIC, LIDAR_MAGIC + 1},
                                  c \in 0..1 },
                        n \in {0, HEADER_SIZE - 1} }
RxDatagrams == SmallDatagrams \cup LimitDatagrams \cup ShortDatagrams

InitRx ==
    /\ builder = nullopt /\ ret = nullopt /\ last_call = NoCall
    /\ emitted = {} /\ out = NoFrames /\ external_stats_ = nullopt /\ ncalls = 0 /\ nctl = 0
    /\ NoSender
    /\ NoProcess
    /\ \E validate_crc \in BOOLEAN : proto = LidarProtocol(validate_crc)
    /\ rx_data = <<>>
    /\ rx_ret = nullopt
    /\ nparse = 0

ParseDatagram ==
    /\ nparse < MaxParse
    /\ \E data \in RxDatagrams :
         LET r == parse_datagram(proto, data)
         IN  /\ proto' = r.self
             /\ rx_ret' = r.result
             /\ rx_data' = data
    /\ nparse' = nparse + 1
    /\ UNCHANGED <<fbVars, txVars, procVars>>

NextRx == ParseDatagram

SpecRx == InitRx /\ [][NextRx]_vars

\* ------------------------------------------------------------------------
\* Properties of the parser
\* ------------------------------------------------------------------------
\* a step that is one parse_datagram call
ParseStep == nparse' = nparse + 1

\* The checks of the wire format, each stated on the bytes of a datagram d
\* by itself (the header checks are meant for Len(d) >= HEADER_SIZE).
TooShort(d)      == Len(d) < HEADER_SIZE
WireCount(d)     == d[18] + 256 * d[19]
BadMagic(d)      == SubSeq(d, 1, 4) # <<82, 86, 73, 76>>
BadVersion(d)    == d[5] # 1
InvalidCount(d)  == WireCount(d) < 1 \/ WireCount(d) > 105
LengthMismatch(d) == Len(d) # 27 + 13 * WireCount(d)
StoredCrc(d)     == SubSeq(d, 24, 27)
\* the IEEE 802.3 CRC of bytes [0..22] followed by the payload
WireCrc(d)       == crc32_calculate(SubSeq(d, 1, 23) \o SubSeq(d, 28, Len(d)))
ChecksumMismatch(d, validate) ==
    validate /\ StoredCrc(d) # U32_ZERO /\ StoredCrc(d) # WireCrc(d)
StructurallyValid(d) ==
    /\ ~TooShort(d) /\ ~BadMagic(d) /\ ~BadVersion(d)
    /\ ~InvalidCount(d) /\ ~LengthMismatch(d)

\* the counter of the first check that fails, in the order of the wire
\* format's checks; "valid_packets" if none fails
FirstFailure(d, validate) ==
    CASE TooShort(d)       -> "len_mismatch"
      [] ~TooShort(d) /\ BadMagic(d) -> "bad_magic"
      [] ~TooShort(d) /\ ~BadMagic(d) /\ BadVersion(d) -> "bad_version"
      [] ~TooShort(d) /\ ~BadMagic(d) /\ ~BadVersion(d) /\ InvalidCount(d)
                           -> "invalid_count"
      [] ~TooShort(d) /\ ~BadMagic(d) /\ ~BadVersion(d) /\ ~InvalidCount(d)
         /\ LengthMismatch(d) -> "len_mismatch"
      [] StructurallyValid(d) /\ ChecksumMismatch(d, validate)
                           -> "crc_failures"
      [] OTHER             -> "valid_packets"

\* the statistics after a call that counted the datagram in counter c
CountedIn(stats, c) ==
    [stats EXCEPT !.total_packets = @ + 1, ![c] = @ + 1]

\* C11: parse_datagram applies its checks in the order too-short, bad magic,
\* bad version, invalid point count, length mismatch, checksum mismatch: a
\* rejected datagram returns no record and increments, besides
\* total_packets, only the counter of the first check that fails in that
\* order, even when several checks fail; a datagram that passes all of them
\* returns a record.
C11_CheckOrder ==
    [][ParseStep =>
         LET c == FirstFailure(rx_data', proto.validate_crc_)
         IN  /\ proto'.stats_ = CountedIn(proto.stats_, c)
             /\ has_value(rx_ret') <=> (c = "valid_packets")
             /\ proto'.validate_crc_ = proto.validate_crc_]_vars

\* a datagram on which magic, version, point count and length all fail was
\* rejected and counted as bad magic only, after an earlier rejection
C11_Witness ==
    /\ nparse = 2
    /\ ~TooShort(rx_data)
    /\ BadMagic(rx_data) /\ BadVersion(rx_data) /\ InvalidCount(rx_data)
    /\ LengthMismatch(rx_data)
    /\ rx_ret = nullopt
    /\ proto.stats_.bad_magic = 1
    /\ proto.stats_.len_mismatch = 1
    /\ proto.stats_.bad_version = 0 /\ proto.stats_.invalid_count = 0

\* C12: for a structurally valid datagram the checksum is verified exactly
\* when validation is enabled and the stored crc32 is non-zero, and then the
\* datagram is accepted iff the stored crc32 equals the CRC of bytes [0..22]
\* followed by the payload, a failure being counted in crc_failures; with
\* crc32 = 0 it is accepted in both validation modes.
C12_Checksum ==
    [][ParseStep /\ StructurallyValid(rx_data') =>
         LET d == rx_data'
             verified == proto.validate_crc_ /\ StoredCrc(d) # U32_ZERO
         IN  /\ has_value(rx_ret') <=> (~verified \/ StoredCrc(d) = WireCrc(d))
             /\ ~has_value(rx_ret') =>
                  proto'.stats_ = CountedIn(proto.stats_, "crc_failures")
             /\ has_value(rx_ret') =>
                  proto'.stats_ = CountedIn(proto.stats_, "valid_packets")
             /\ StoredCrc(d) = U32_ZERO => has_value(rx_ret')]_vars

\* with validation enabled, a datagram with a wrong non-zero checksum was
\* rejected after one with the right checksum had been accepted
C12_Witness ==
    /\ nparse = 2
    /\ proto.validate_crc_
    /\ StructurallyValid(rx_data)
    /\ StoredCrc(rx_data) # U32_ZERO /\ StoredCrc(rx_data) # WireCrc(rx_data)
    /\ rx_ret = nullopt
    /\ proto.stats_.crc_failures = 1
    /\ proto.stats_.valid_packets = 1

\* ========================================================================
\* Specification of the sender: the driver invokes the point-cloud callback
\* on one thread, sweep after sweep; sendto succeeds or fails.
\* ========================================================================
\* number of callbacks in a run
MaxCb == 2

\* Raw points (millimetres): one that survives the filter, the (0,0,0)
\* sentinel, one nearer than MIN_RANGE and one farther than MAX_RANGE.
\* Surviving points of a sweep differ from each other in x.
RawPoint(i, class) ==
    CASE class = "ok"   -> [x |-> 1000 + i, y |-> 0, z |-> 0,
                            reflectivity |-> i % 256]
      [] class = "zero" -> [x |-> 0, y |-> 0, z |-> 0, reflectivity |-> i % 256]
      [] class = "near" -> [x |-> 50, y |-> 0, z |-> 0, reflectivity |-> i % 256]
      [] class = "far"  -> [x |-> 0, y |-> 25000, z |-> 0,
                            reflectivity |-> i % 256]

\* the LivoxLidarEthernetPacket of a sweep of dot_num points whose classes
\* repeat the given pattern
RawSweep(timestamp, dot_num, pattern) ==
    [data_type |-> kLivoxLidarCartesianCoordinateHighData,
     timestamp |-> timestamp,
     time_type |-> 0,
     dot_num   |-> dot_num,
     data      |-> [i \in 1..dot_num |->
                      RawPoint(i - 1, pattern[((i - 1) % Len(pattern)) + 1])]]

AllOk == <<"ok">>
Mixed == <<"ok", "zero", "near", "ok", "far", "ok", "ok">>
\* the host clock reading of a callback
HostTs == 1000

\* how sendto fails: none fails, or the at-th sendto of the sweep fails
NoFail == [at |-> 0, kind |-> "ok"]
FailAt(j, kind) == [at |-> j, kind |-> kind]
FirstFails == {FailAt(1, k) : k \in SendtoKinds \ {"ok"}}

\* a sweep of nine points of which some are filtered out
MixedSweep == RawSweep(10, 9, Mixed)
\* sweeps of one, two and three datagrams
FullSweep  == RawSweep(10, TX_MAX_POINTS_PER_PACKET, AllOk)
TwoSweep   == RawSweep(10, TX_MAX_POINTS_PER_PACKET + 1, AllOk)
ThreeSweep == RawSweep(10, 250, AllOk)
\* a sweep with more surviving points than the filter buffer holds
LargeSweep == RawSweep(10, MAX_FILTERED + 2, AllOk)

\* The arguments of a callback and what sendto does during it: a null
\* packet, a packet of another data type, sweeps whose sends succeed, and
\* sweeps with a failing first, middle or last send.
CallbackInputs ==
    { [data |-> d, fail |-> NoFail] :
        d \in { nullptr,
                [RawSweep(10, 1, AllOk) EXCEPT !.data_type = "Spherical"],
                RawSweep(10, 0, AllOk), RawSweep(20, 1, AllOk),
                MixedSweep, FullSweep, TwoSweep, ThreeSweep } }
    \cup { [data |-> MixedSweep, fail |-> f] : f \in FirstFails }
    \cup { [data |-> TwoSweep, fail |-> FailAt(2, "eagain")] }
    \cup { [data |-> ThreeSweep, fail |-> f] :
             f \in {FailAt(1, "partial"), FailAt(2, "error"),
                    FailAt(3, "eagain")} }
\* the large sweep (twenty datagrams) is offered as the first of a session,
\* without a failure and with a failing tenth send
LargeInputs ==
    { [data |-> LargeSweep, fail |-> f] : f \in {NoFail, FailAt(10, "eagain")} }

InitTx ==
    /\ builder = nullopt /\ ret = nullopt /\ last_call = NoCall
    /\ emitted = {} /\ out = NoFrames /\ external_stats_ = nullopt /\ ncalls = 0 /\ nctl = 0
    /\ NoParser
    /\ NoProcess
    /\ nwarn = 0
    /\ \E crc_enabled \in BOOLEAN, downsample \in {DOWNSAMPLE_FACTOR, 2} :
         tx = SenderGlobals(crc_enabled, downsample)
    /\ sock = <<>>
    /\ sweep = nullopt
    /\ tx_log = <<>>
    /\ ncb = 0

\* the driver calls PointCloudCallback with the arguments in, while the host
\* clock reads fallback_ts and later now
RunCallback(in, fallback_ts, now) ==
         \* r: the one outcome of the call
         \E r \in {PointCloudCallback(tx, in.data, fallback_ts, now, in.fail)} :
             /\ tx' = r.g
             /\ sock' = r.ios
             /\ sweep' = Some(in)
             /\ tx_log' = tx_log \o
                  [i \in 1..Len(r.ios) |->
                      [cb |-> ncb + 1, seq |-> r.ios[i].seq,
                       ok |-> r.ios[i].sent = r.ios[i].len]]
             /\ nwarn' = IF r.warned THEN nwarn + 1 ELSE nwarn
             /\ ncb' = ncb + 1
             /\ UNCHANGED <<fbVars, protoVars, procVars>>

Callback ==
    /\ ncb < MaxCb
    /\ \E in \in CallbackInputs \cup (IF ncb = 0 THEN LargeInputs ELSE {}) :
         RunCallback(in, HostTs, HostTs + 1)

NextTx == Callback

SpecTx == InitTx /\ [][NextTx]_vars

\* ========================================================================
\* Specification of the sender's timestamps: a session of one-point sweeps
\* whose device timestamps go forward, stand still, go back and jump, under
\* a host clock that advances from callback to callback.
\* ========================================================================
\* number of callbacks in a session
MaxTsCb == 4
\* the reading of the host monotonic clock during the callback after k others
HostClock(k) == 15 + 10 * k
\* device timestamps: small ones, and one second less one nanosecond and one
\* second after 10
DeviceTimestamps == {5, 10, 20, 30, 10 + ONE_SECOND_NS - 1, 10 + ONE_SECOND_NS}
TimedInputs ==
    { [data |-> RawSweep(ts, 1, AllOk), fail |-> NoFail] : ts \in DeviceTimestamps }
    \cup { [data |-> nullptr, fail |-> NoFail] }

TimedCallback ==
    /\ ncb < MaxTsCb
    /\ \E in \in TimedInputs :
         RunCallback(in, HostClock(ncb), HostClock(ncb) + 1)

NextTs == TimedCallback

SpecTs == InitTx /\ [][NextTs]_vars

\* ------------------------------------------------------------------------
\* Properties of the sender
\* ------------------------------------------------------------------------
\* the last callback processed a sweep (it did not return at once)
Processed ==
    /\ has_value(sweep)
    /\ value(sweep).data # nullptr
    /\ value(sweep).data.data_type = kLivoxLidarCartesianCoordinateHighData

\* raw point number i (from 0) of a sweep passes the filter configured in g
Survives(raw, i, g) ==
    /\ ~(raw.x = 0 /\ raw.y = 0 /\ raw.z = 0)
    /\ raw.x * raw.x + raw.y * raw.y + raw.z * raw.z >= g.g_min_range * g.g_min_range
    /\ raw.x * raw.x + raw.y * raw.y + raw.z * raw.z <= g.g_max_range * g.g_max_range
    /\ (g.g_downsample > 1 => i % g.g_downsample = 0)

\* the indices (from 0) of the filter-surviving points of a sweep
SurvivingIdx(data, g) ==
    SelectSeq([k \in 1..data.dot_num |-> k - 1],
              LAMBDA i : Survives(data.data[i + 1], i, g))
\* the filter-surviving points of a sweep, in the order of the sweep
Surviving(data, g) ==
    LET idx == SurvivingIdx(data, g)
    IN  [k \in 1..Len(idx) |-> data.data[idx[k] + 1]]
\* the number of raw points the filter loop meets with its buffer full
Overflowed(data, g) ==
    LET idx == SurvivingIdx(data, g)
    IN  IF Len(idx) <= 2048 THEN 0 ELSE data.dot_num - (idx[2048] + 1)

\* the points the callback hands to send_segmented: the filter buffer holds
\* the first 2048 surviving points
Buffered(data, g) ==
    LET pts == Surviving(data, g)
    IN  SubSeq(pts, 1, IF Len(pts) < 2048 THEN Len(pts) ELSE 2048)

\* the 13 wire bytes of a raw point: metres as floats, then reflectivity
WireBytes(raw) ==
    MetresFloat(raw.x) \o MetresFloat(raw.y) \o MetresFloat(raw.z)
        \o <<raw.reflectivity>>
\* the xyz floats and the xyz-intensity floats of a sequence of raw points
XyzOf(pts) ==
    [j \in 1..(3 * Len(pts)) |->
        LET raw == pts[1 + (j - 1) \div 3]
        IN  CASE (j - 1) % 3 = 0 -> MetresFloat(raw.x)
              [] (j - 1) % 3 = 1 -> MetresFloat(raw.y)
              [] OTHER           -> MetresFloat(raw.z)]
XyziOf(pts) ==
    [j \in 1..(4 * Len(pts)) |->
        LET raw == pts[1 + (j - 1) \div 4]
        IN  CASE (j - 1) % 4 = 0 -> MetresFloat(raw.x)
              [] (j - 1) % 4 = 1 -> MetresFloat(raw.y)
              [] (j - 1) % 4 = 2 -> MetresFloat(raw.z)
              [] OTHER           -> FloatOfU8(raw.reflectivity)]

Min(a, b) == IF a < b THEN a ELSE b
\* the points of the i-th datagram of a sweep whose points are pts
Chunk(pts, i) == SubSeq(pts, 105 * (i - 1) + 1, Min(105 * i, Len(pts)))

\* C13: every datagram send_packet builds, with checksumming enabled or
\* disabled, is accepted by parse_datagram with validation on and off, and
\* the parsed record carries the sweep's device timestamp, the datagram's
\* seq and point count, flags = 0, sensor_id = 0, the crc32 field and the
\* points of the datagram in order; a non-zero crc32 field equals the CRC
\* the receiver recomputes over bytes [0..22] followed by the payload.
C13_RoundTrip ==
    Processed =>
      \A pts \in {Buffered(value(sweep).data, tx)} :
        \A i \in 1..Len(sock) :
          /\ \A validate \in BOOLEAN :
               \A r \in {parse_datagram(LidarProtocol(validate), sock[i].buffer)} :
                 /\ has_value(r.result)
                 /\ value(r.result).device_ts_ns = tx.ts_last
                 /\ value(r.result).seq = sock[i].seq
                 /\ value(r.result).point_count = Len(Chunk(pts, i))
                 /\ value(r.result).flags = 0
                 /\ value(r.result).sensor_id = 0
                 /\ value(r.result).crc32 = StoredCrc(sock[i].buffer)
                 /\ value(r.result).xyz_data = XyzOf(Chunk(pts, i))
                 /\ value(r.result).points_data = XyziOf(Chunk(pts, i))
          /\ (tx.g_crc_enabled <=> StoredCrc(sock[i].buffer) # U32_ZERO)
          /\ StoredCrc(sock[i].buffer) # U32_ZERO =>
               StoredCrc(sock[i].buffer)
                 = CalculatedCrc(sock[i].buffer, WireCount(sock[i].buffer))

\* a sweep of three checksummed datagrams was sent
C13_Witness ==
    /\ Processed
    /\ tx.g_crc_enabled
    /\ Len(sock) = 3
    /\ \A i \in 1..3 : StoredCrc(sock[i].buffer) # U32_ZERO
    /\ WireCount(sock[3].buffer) = 40

\* a datagram with its point_count field overwritten
SetCount(d, c) == [d EXCEPT ![18] = c % 256, ![19] = c \div 256]
\* the header of d announcing c points, followed by c points
Recount(d, c) == SubSeq(SetCount(d, c), 1, 27) \o WirePayload(c)
\* parse_datagram, with validation on and off, returns no record for d and
\* counts it in counter c only
RejectedAs(d, c) ==
    \A validate \in BOOLEAN :
      \A r \in {parse_datagram(LidarProtocol(validate), d)} :
        /\ r.result = nullopt
        /\ r.self.stats_ = CountedIn(LidarProtocol(validate).stats_, c)

\* C14: every datagram handed to the socket has 1 <= point_count <= 105 and
\* length exactly 27 + 13 * point_count <= 1400 (40 bytes for one point,
\* 1392 for 105); the receiver rejects the same header with point_count 0
\* or 106 (with as many points as announced) and any datagram whose length
\* differs from 27 + 13 * point_count: a byte missing, a byte added, or the
\* count changed under an unchanged length.
C14_Sizes ==
    \A i \in 1..Len(sock) :
      \A d \in {sock[i].buffer} :
        /\ WireCount(d) >= 1
        /\ WireCount(d) <= 105
        /\ Len(d) = 27 + 13 * WireCount(d)
        /\ Len(d) <= 1400
        /\ sock[i].len = Len(d)
        /\ WireCount(d) = 1 => Len(d) = 40
        /\ WireCount(d) = 105 => Len(d) = 1392
        /\ RejectedAs(Recount(d, 0), "invalid_count")
        /\ RejectedAs(Recount(d, 106), "invalid_count")
        /\ RejectedAs(SubSeq(d, 1, Len(d) - 1), "len_mismatch")
        /\ RejectedAs(d \o <<0>>, "len_mismatch")
        /\ WireCount(d) > 1 => RejectedAs(SetCount(d, WireCount(d) - 1), "len_mismatch")
        /\ WireCount(d) < 105 => RejectedAs(SetCount(d, WireCount(d) + 1), "len_mismatch")

\* a sweep of 106 points was sent as a datagram of 105 points and 1392
\* bytes and a datagram of one point and 40 bytes
C14_Witness ==
    /\ Processed
    /\ Len(sock) = 2
    /\ WireCount(sock[1].buffer) = 105 /\ Len(sock[1].buffer) = 1392
    /\ WireCount(sock[2].buffer) = 1 /\ Len(sock[2].buffer) = 40

\* tx_log[i] is a datagram that was transmitted: sendto took all its bytes
Emitted(i) == tx_log[i].ok
\* tx_log[j] is the first datagram transmitted after the transmitted tx_log[i]
NextEmitted(i, j) ==
    /\ i < j
    /\ Emitted(i)
    /\ Emitted(j)
    /\ \A k \in (i + 1)..(j - 1) : ~Emitted(k)

\* C15 as stated: each transmitted datagram carries the sequence number of
\* the datagram transmitted before it plus one, modulo the counter's range.
C15_Original ==
    \A i, j \in 1..Len(tx_log) :
      NextEmitted(i, j) =>
        tx_log[j].seq = (tx_log[i].seq + 1) % PACKET_SEQ_MOD

\* C15 (amended): every sendto call, successful or not, carries the sequence
\* number of the call before it plus one, modulo the counter's range; so a
\* transmitted datagram carries the number of the datagram transmitted
\* before it plus one plus the number of failed sends in between, and the
\* datagrams transmitted for one sweep carry consecutive numbers.
C15_Sequence ==
    /\ \A i \in 1..(Len(tx_log) - 1) :
         tx_log[i + 1].seq = (tx_log[i].seq + 1) % PACKET_SEQ_MOD
    /\ \A i, j \in 1..Len(tx_log) :
         NextEmitted(i, j) =>
           /\ tx_log[j].seq = (tx_log[i].seq + 1 + (j - i - 1)) % PACKET_SEQ_MOD
           /\ tx_log[i].cb = tx_log[j].cb =>
                 tx_log[j].seq = (tx_log[i].seq + 1) % PACKET_SEQ_MOD

\* a datagram was transmitted, the next send failed, and the datagram of
\* the following sweep was transmitted; and one sweep has been transmitted
\* in several datagrams
C15_Witness ==
    /\ \E i \in 1..(Len(tx_log) - 2) :
         /\ Emitted(i) /\ ~Emitted(i + 1) /\ Emitted(i + 2)
    /\ \E i \in 1..(Len(tx_log) - 1) :
         /\ Emitted(i) /\ Emitted(i + 1) /\ tx_log[i].cb = tx_log[i + 1].cb

\* the places of the session where the sequence numbers taken by send_packet
\* pass from the largest value to 0
Wraps ==
    {i \in 1..(Len(tx_log) - 1) :
        tx_log[i].seq = UINT32_MAX /\ tx_log[i + 1].seq = 0}
\* one filtered point, to call send_packet with
OnePoint ==
    <<[x |-> MetresFloat(1000), y |-> MetresFloat(0), z |-> MetresFloat(0),
       intensity |-> 7]>>

\* C16: stats_seq_wraps equals the number of times the sequence numbers
\* taken by send_packet passed from the largest value (2^32 - 1 in the
\* program, 2^PACKET_SEQ_BITS - 1 here) to 0; a further send_packet call,
\* however its send ends, increments it exactly when it is such a
\* transition, and a call refused for its point count leaves it alone.
C16_Wraps ==
    /\ tx.stats_seq_wraps = Cardinality(Wraps)
    /\ \A kind \in SendtoKinds :
         \A sp \in {send_packet(tx, HostTs, OnePoint, 0, 1, kind)} :
           sp.g.stats_seq_wraps =
             IF /\ Len(tx_log) > 0
                /\ tx_log[Len(tx_log)].seq = UINT32_MAX
                /\ value(sp.io).seq = 0
             THEN tx.stats_seq_wraps + 1 ELSE tx.stats_seq_wraps
    /\ \A count \in {0, 106} :
         send_packet(tx, HostTs, OnePoint, 0, count, "ok").g.stats_seq_wraps
             = tx.stats_seq_wraps

\* the numbers have wrapped twice and the last number taken is the largest:
\* the next call is a third transition
C16_Witness ==
    /\ tx.stats_seq_wraps = 2
    /\ Cardinality(Wraps) = 2
    /\ tx_log[Len(tx_log)].seq = UINT32_MAX
    /\ tx.packet_seq = 0

\* every sendto call of the last callback took the whole datagram
AllSent == \A i \in 1..Len(sock) : sock[i].sent = sock[i].len

\* C17: when a sweep gives send_segmented n > 0 filter-surviving points and
\* every send succeeds, exactly ceil(n / 105) datagrams are sent; each but
\* the last has 105 points and the last has the remainder; all carry the
\* same device timestamp and consecutive sequence numbers.
C17_Segmentation ==
    (Processed /\ AllSent) =>
      \A n \in {Len(Buffered(value(sweep).data, tx))} :
        /\ Len(sock) = (n + 104) \div 105
        /\ \A i \in 1..Len(sock) :
             /\ i < Len(sock) => WireCount(sock[i].buffer) = 105
             /\ i = Len(sock) => WireCount(sock[i].buffer) = n - 105 * (i - 1)
             /\ Field(sock[i].buffer, 5, 8) = Field(sock[1].buffer, 5, 8)
             /\ Field(sock[i].buffer, 5, 8) = LE(tx.ts_last, 8)
             /\ Field(sock[i].buffer, 13, 4) = LE(sock[i].seq, 4)
             /\ i > 1 => sock[i].seq = (sock[i - 1].seq + 1) % PACKET_SEQ_MOD

\* 250 surviving points went out as datagrams of 105, 105 and 40 points
C17_Witness ==
    /\ Processed
    /\ AllSent
    /\ Len(Buffered(value(sweep).data, tx)) = 250
    /\ Len(sock) = 3
    /\ WireCount(sock[1].buffer) = 105
    /\ WireCount(sock[2].buffer) = 105
    /\ WireCount(sock[3].buffer) = 40

\* the points of a datagram, each as its 13 wire bytes
PointsOf(d) ==
    [k \in 1..WireCount(d) |-> SubSeq(d, 28 + 13 * (k - 1), 27 + 13 * k)]
RECURSIVE PointsSent(_, _)
\* the points of the first i datagrams handed to the socket, concatenated
PointsSent(ios, i) ==
    IF i = 0 THEN <<>> ELSE PointsSent(ios, i - 1) \o PointsOf(ios[i].buffer)
\* the first m points of pts, each as its 13 wire bytes
WirePrefix(pts, m) == [k \in 1..m |-> WireBytes(pts[k])]

\* C18 as stated: for every sweep the points of the datagrams produced for
\* it, concatenated, are the filter-surviving points of the sweep in order.
C18_Original ==
    Processed =>
      \A pts \in {Surviving(value(sweep).data, tx)} :
        PointsSent(sock, Len(sock)) = WirePrefix(pts, Len(pts))

\* C18 (amended): the points of the datagrams handed to the socket for a
\* sweep, concatenated, are a prefix of the filter-surviving points of the
\* sweep in order: none duplicated, reordered or left out in between.  The
\* prefix is the first min(s, 2048) of the s surviving points when every
\* send succeeds, so all of them when s <= 2048; when the j-th send fails
\* it ends with the j-th chunk of those.
C18_Conservation ==
    Processed =>
      \A pts \in {Surviving(value(sweep).data, tx)} :
        \A sent \in {PointsSent(sock, Len(sock))} :
          /\ Len(sent) <= Len(pts)
          /\ sent = WirePrefix(pts, Len(sent))
          /\ AllSent => Len(sent) = Min(Len(pts), 2048)
          /\ (AllSent /\ Len(pts) <= 2048) => sent = WirePrefix(pts, Len(pts))
          /\ ~AllSent =>
                /\ \A i \in 1..Len(sock) :
                      sock[i].sent # sock[i].len <=> i = Len(sock)
                /\ Len(sent) = Min(105 * Len(sock), Min(Len(pts), 2048))

\* a sweep whose surviving points are not all of its points went out whole
\* in several datagrams
C18_Witness ==
    /\ Processed
    /\ AllSent
    /\ Len(sock) >= 2
    /\ Len(Surviving(value(sweep).data, tx)) < value(sweep).data.dot_num
    /\ Len(PointsSent(sock, Len(sock))) = Len(Surviving(value(sweep).data, tx))

\* a callback was run
CallbackStep == ncb' = ncb + 1
\* the state after the step: the callback processed a sweep, and a send of
\* it failed
ProcessedNext ==
    /\ has_value(sweep')
    /\ value(sweep').data # nullptr
    /\ value(sweep').data.data_type = kLivoxLidarCartesianCoordinateHighData
FailedNext == \E i \in 1..Len(sock') : sock'[i].sent # sock'[i].len

\* C19: when the send of the j-th chunk of a sweep fails, the sendto calls
\* of the sweep are those of chunks 1..j, one call each (no later chunk is
\* sent, the failed chunk is not sent again), and stats_points_dropped_cap
\* grows by the points of chunk j and of all later chunks (besides the
\* points that did not fit the filter buffer); when the sends of the next
\* sweep succeed, all its chunks are sent and counted as transmitted, with
\* the sequence number following that of the failed chunk, and no point of
\* it is counted as dropped.
C19_FailedChunk ==
    [][ (CallbackStep /\ ProcessedNext) =>
          \A pts \in {Buffered(value(sweep').data, tx')} :
            /\ FailedNext =>
                  \A j \in {Len(sock')} :
                    /\ \A i \in 1..j :
                          /\ sock'[i].sent # sock'[i].len <=> i = j
                          /\ PointsOf(sock'[i].buffer)
                                = WirePrefix(Chunk(pts, i), Len(Chunk(pts, i)))
                    /\ Len(tx_log') = Len(tx_log) + j
                    /\ tx'.stats_points_dropped_cap
                          = tx.stats_points_dropped_cap
                            + (Len(pts) - 105 * (j - 1))
                            + Overflowed(value(sweep').data, tx')
                    /\ tx'.stats_tx_packets = tx.stats_tx_packets + (j - 1)
                    /\ tx'.stats_tx_points = tx.stats_tx_points + 105 * (j - 1)
            /\ (Processed /\ ~AllSent /\ ~FailedNext) =>
                  /\ Len(sock') = (Len(pts) + 104) \div 105
                  /\ \A i \in 1..Len(sock') :
                        PointsOf(sock'[i].buffer)
                          = WirePrefix(Chunk(pts, i), Len(Chunk(pts, i)))
                  /\ Len(sock') > 0 =>
                        sock'[1].seq = (sock[Len(sock)].seq + 1) % PACKET_SEQ_MOD
                  /\ tx'.stats_tx_packets = tx.stats_tx_packets + Len(sock')
                  /\ tx'.stats_tx_points = tx.stats_tx_points + Len(pts)
                  /\ tx'.stats_points_dropped_cap = tx.stats_points_dropped_cap
      ]_vars

\* the second of three chunks of a sweep failed, its 145 remaining points
\* were counted as dropped, and the next sweep went out in three datagrams
C19_Witness ==
    /\ ncb = 2
    /\ Len(tx_log) = 5
    /\ tx_log[1].ok /\ ~tx_log[2].ok /\ tx_log[2].cb = 1
    /\ tx.stats_points_dropped_cap = 145
    /\ Processed /\ AllSent /\ Len(sock) = 3
    /\ tx.stats_tx_points = 105 + 250

\* a sendto call that failed transiently: it would have blocked, or it took
\* only a part of the datagram
WouldBlock(io) == io.sent < 0 /\ io.errno \in {"EAGAIN", "EWOULDBLOCK"}
PartialSend(io) == io.sent >= 0 /\ io.sent # io.len
Transient(io) == WouldBlock(io) \/ PartialSend(io)

\* C20: for each transient send failure, would-block and partial send
\* alike, send_packet increments stats_dropped_packets, the datagram is not
\* sent again, and tx_packets, tx_points and tx_bytes count only the
\* datagrams sent before it.
C20_TransientDrop ==
    [][ CallbackStep =>
          \A j \in 1..Len(sock') :
            Transient(sock'[j]) =>
              /\ tx'.stats_dropped_packets = tx.stats_dropped_packets + 1
              /\ j = Len(sock')
              /\ tx'.stats_tx_packets = tx.stats_tx_packets + (j - 1)
              /\ tx'.stats_tx_points = tx.stats_tx_points + 105 * (j - 1)
              /\ tx'.stats_tx_bytes = tx.stats_tx_bytes + 1392 * (j - 1)
      ]_vars

\* ------------------------------------------------------------------------
\* Properties of the sender's timestamps
\* ------------------------------------------------------------------------
\* the device timestamp of the sweep the step processes
DeviceTs == value(sweep').data.timestamp
\* the timestamp field of a datagram
WireTs(d) == Field(d, 5, 8)

C22_StickyFallback ==
    [][ CallbackStep =>
          /\ tx.ts_using_fallback => tx'.ts_using_fallback
          /\ nwarn' <= 1
      ]_vars

\* ========================================================================
\* Specification of a sender process: main starts up, the driver's thread
\* delivers point-cloud callbacks, signals arrive, main tears down.  The
\* two sender executables are SLAM/lidar_tx/lidar_stream.cpp and
\* LiDAR/g1_lidar_stream.cpp.
\* ========================================================================
\* number of signals delivered and of callbacks begun in a run
MaxSignals == 2
MaxProcCb == 2

Programs == {"lidar_stream", "g1_lidar_stream"}

\* what a start finds: the host's byte order, the command line, whether
\* checksumming is asked for and the CRC routine is sound, and whether
\* socket(), inet_pton() and LivoxLidarSdkInit() succeed
StartupEnv ==
    [little_endian : BOOLEAN, argc_ok : BOOLEAN, crc : BOOLEAN,
     crc_broken : BOOLEAN, socket_ok : BOOLEAN, ip_ok : BOOLEAN,
     sdk_ok : BOOLEAN]

\* the globals of g1_lidar_stream.cpp (lines 12-16, 37)
G1Globals == [keep_running |-> 1, count |-> 0]

\* a process before main runs.  udp_socket is the global's value and fd_open
\* tells whether the descriptor it names is open; cb is the callback in
\* flight on the driver's thread and cb_flag the value keep_running had when
\* it began; teardown lists main's teardown steps; env is what the start
\* found.
Process(program) ==
    [program       |-> program,
     pc            |-> "start",
     handlers      |-> FALSE,
     shutting_down |-> 0,
     udp_socket    |-> 0 - 1,
     fd_open       |-> FALSE,
     closes        |-> 0,
     driver        |-> "down",
     registered    |-> FALSE,
     uninits       |-> 0,
     cb            |-> nullopt,
     cb_flag       |-> 1,
     env           |-> nullopt,
     sendtos       |-> 0,
     closed_sendto |-> 0,
     teardown      |-> <<>>,
     nsig          |-> 0,
     exit_code     |-> nullopt]

\* crc32_calculate as built; a broken build is one whose routine returns 0
Crc32Built(broken, data) == IF broken THEN U32_ZERO ELSE crc32_calculate(data)

\* crc32_self_test() (lidar_stream.cpp:208-244): the three test vectors
crc32_self_test(broken) ==
    LET test1 == <<49, 50, 51, 52, 53, 54, 55, 56, 57>>
        test3 == <<84, 104, 101, 32, 113, 117, 105, 99, 107, 32, 98, 114, 111,
                   119, 110, 32, 102, 111, 120, 32, 106, 117, 109, 112, 115,
                   32, 111, 118, 101, 114, 32, 116, 104, 101, 32, 108, 97,
                   122, 121, 32, 100, 111, 103>>
        pass1 == Crc32Built(broken, test1) = U32(38, 57, 244, 203)
        pass2 == Crc32Built(broken, <<>>) = U32_ZERO
        pass3 == Crc32Built(broken, test3) = U32(57, 163, 79, 65)
    IN  pass1 /\ pass2 /\ pass3

\* main returns code
Return(p, code) == [p EXCEPT !.pc = "exited", !.exit_code = Some(code)]
\* close(udp_socket)
Close(p) == [p EXCEPT !.fd_open = FALSE, !.closes = @ + 1]

\* variant: the socket is left open when the driver fails to initialise
main_startup_leak(p, g, env) ==
    IF ~env.little_endian THEN [p |-> Return(p, 1), g |-> g]
    ELSE IF ~env.argc_ok THEN [p |-> Return(p, 1), g |-> g]
    ELSE
      LET g1 == [g EXCEPT !.g_crc_enabled = env.crc]
          p1 == [p EXCEPT !.handlers = TRUE]
          p2 == [p1 EXCEPT !.udp_socket = 3, !.fd_open = TRUE]
      IN  IF env.crc /\ ~crc32_self_test(env.crc_broken)
          THEN [p |-> Return(p, 1), g |-> g1]
          ELSE IF ~env.socket_ok THEN [p |-> Return(p1, 0 - 1), g |-> g1]
          ELSE IF ~env.ip_ok THEN [p |-> Return(Close(p2), 0 - 1), g |-> g1]
          ELSE IF ~env.sdk_ok THEN [p |-> Return(p2, 0 - 1), g |-> g1]
          ELSE [p |-> [p2 EXCEPT !.driver = "up", !.registered = TRUE,
                                 !.pc = "loop"],
                g |-> g1]

\* main of lidar_stream.cpp from its start to the main loop
\* (lidar_stream.cpp:770-894)
main_startup(p, g, env) ==
    IF ~env.little_endian THEN [p |-> Return(p, 1), g |-> g]
    ELSE IF ~env.argc_ok THEN [p |-> Return(p, 1), g |-> g]
    ELSE
      LET g1 == [g EXCEPT !.g_crc_enabled = env.crc]
          p1 == [p EXCEPT !.handlers = TRUE]
          p2 == [p1 EXCEPT !.udp_socket = 3, !.fd_open = TRUE]
      IN  IF env.crc /\ ~crc32_self_test(env.crc_broken)
          THEN [p |-> Return(p, 1), g |-> g1]
          ELSE IF ~env.socket_ok THEN [p |-> Return(p1, 0 - 1), g |-> g1]
          ELSE IF ~env.ip_ok THEN [p |-> Return(Close(p2), 0 - 1), g |-> g1]
          ELSE IF ~env.sdk_ok THEN [p |-> Return(Close(p2), 0 - 1), g |-> g1]
          ELSE [p |-> [p2 EXCEPT !.driver = "up", !.registered = TRUE,
                                 !.pc = "loop"],
                g |-> g1]

\* main of g1_lidar_stream.cpp from its start to the main loop
\* (g1_lidar_stream.cpp:108-154)
g1_main_startup(p, g, env) ==
    LET p1 == [p EXCEPT !.handlers = TRUE]
        p2 == [p1 EXCEPT !.udp_socket = 3, !.fd_open = TRUE]
    IN  IF ~env.socket_ok THEN [p |-> Return(p1, 0 - 1), g |-> g]
        ELSE IF ~env.sdk_ok THEN [p |-> Return(p2, 0 - 1), g |-> g]
        ELSE [p |-> [p2 EXCEPT !.driver = "up", !.registered = TRUE,
                               !.pc = "loop"],
              g |-> g]

\* variant: a later signal sets the flag again
signal_handler_toggle(p, g) ==
    [p |-> p, g |-> [g EXCEPT !.keep_running = 1 - @]]

\* signal_handler (lidar_stream.cpp:734-746, g1_lidar_stream.cpp:18-22)
signal_handler(p, g) ==
    IF p.program = "lidar_stream"
    THEN IF p.shutting_down # 0 THEN [p |-> p, g |-> g]
         ELSE [p |-> [p EXCEPT !.shutting_down = 1],
               g |-> [g EXCEPT !.keep_running = 0]]
    ELSE [p |-> p, g |-> [g EXCEPT !.keep_running = 0]]

\* PointCloudCallback of g1_lidar_stream.cpp (lines 30-76); kind is what
\* sendto will do
g1_PointCloudCallback(g, data, kind) ==
    IF data = nullptr THEN [g |-> g, ios |-> <<>>]
    ELSE IF data.data_type # kLivoxLidarCartesianCoordinateHighData
    THEN [g |-> g, ios |-> <<>>]
    ELSE
      LET n == IF data.dot_num < 96 THEN data.dot_num ELSE 96
          valid == SelectSeq(SubSeq(data.data, 1, n),
                             LAMBDA pt : pt.x # 0 \/ pt.y # 0 \/ pt.z # 0)
          buffer == [k \in 1..Len(valid) |->
                        [x |-> MetresFloat(valid[k].x),
                         y |-> MetresFloat(valid[k].y),
                         z |-> MetresFloat(valid[k].z),
                         intensity |-> valid[k].reflectivity]]
          len == Len(valid) * POINT_SIZE
          r == sendto(kind, len)
      IN  IF Len(valid) > 0
          THEN [g |-> [g EXCEPT !.count = @ + 1],
                ios |-> <<[buffer |-> PointsBytes(buffer, 0, Len(valid)),
                           len |-> len, sent |-> r.sent, errno |-> r.errno]>>]
          ELSE [g |-> g, ios |-> <<>>]

\* the sweep the driver delivers to a callback
DriverSweep == [data |-> RawSweep(10, 1, AllOk), fail |-> NoFail]

InitMain ==
    /\ builder = nullopt /\ ret = nullopt /\ last_call = NoCall
    /\ emitted = {} /\ out = NoFrames /\ external_stats_ = nullopt /\ ncalls = 0 /\ nctl = 0
    /\ NoParser
    /\ \E program \in Programs :
         /\ proc = Process(program)
         /\ tx = IF program = "lidar_stream"
                 THEN SenderGlobals(FALSE, DOWNSAMPLE_FACTOR) ELSE G1Globals
    /\ thr = nullopt
    /\ sock = <<>> /\ sweep = nullopt /\ tx_log = <<>> /\ ncb = 0 /\ nwarn = 0

\* main runs from its first line to its main loop, or returns
Startup ==
    /\ proc.pc = "start"
    /\ \E env \in StartupEnv :
         \E r \in {IF proc.program = "lidar_stream"
                   THEN main_startup(proc, tx, env)
                   ELSE g1_main_startup(proc, tx, env)} :
           /\ proc' = [r.p EXCEPT !.env = Some(env)]
           /\ tx' = r.g
    /\ UNCHANGED <<fbVars, protoVars, sock, sweep, tx_log, ncb, nwarn, thr>>

\* SIGINT or SIGTERM is delivered to the installed handler
Signal ==
    /\ proc.handlers
    /\ proc.pc # "exited"
    /\ proc.nsig < MaxSignals
    /\ \E r \in {signal_handler(proc, tx)} :
         /\ proc' = [r.p EXCEPT !.nsig = @ + 1]
         /\ tx' = r.g
    /\ UNCHANGED <<fbVars, protoVars, sock, sweep, tx_log, ncb, nwarn, thr>>

\* while (keep_running) sleep(1): the loop ends when the flag is clear
MainLoopExit ==
    /\ proc.pc = "loop"
    /\ tx.keep_running = 0
    /\ proc' = [proc EXCEPT !.pc = IF proc.program = "lidar_stream"
                                   THEN "quiesce" ELSE "close"]
    /\ UNCHANGED <<fbVars, protoVars, txVars, thr>>

\* sleep(1) before the driver is stopped (lidar_stream.cpp:915)
Quiesce ==
    /\ proc.pc = "quiesce"
    /\ proc' = [proc EXCEPT !.pc = "uninit", !.teardown = Append(@, "quiesce")]
    /\ UNCHANGED <<fbVars, protoVars, txVars, thr>>

\* LivoxLidarSdkUninit(): it returns when the driver's thread has stopped,
\* after which no callback is delivered
SdkUninit ==
    /\ proc.pc = "uninit"
    /\ proc.cb = nullopt
    /\ proc' = [proc EXCEPT !.driver = "down", !.uninits = @ + 1,
                            !.teardown = Append(@, "uninit"),
                            !.pc = IF proc.program = "lidar_stream"
                                   THEN "close" ELSE "return"]
    /\ UNCHANGED <<fbVars, protoVars, txVars, thr>>

\* close(udp_socket) in the teardown (lidar_stream.cpp:923-926,
\* g1_lidar_stream.cpp:166)
CloseSocket ==
    /\ proc.pc = "close"
    /\ proc' = IF proc.program = "lidar_stream"
               THEN IF proc.udp_socket >= 0
                    THEN [Close(proc) EXCEPT !.udp_socket = 0 - 1,
                                             !.teardown = Append(@, "close"),
                                             !.pc = "return"]
                    ELSE [proc EXCEPT !.pc = "return"]
               ELSE [Close(proc) EXCEPT !.teardown = Append(@, "close"),
                                        !.pc = "uninit"]
    /\ UNCHANGED <<fbVars, protoVars, txVars, thr>>

\* the final statistics and return 0
MainReturn ==
    /\ proc.pc = "return"
    /\ proc' = Return(proc, 0)
    /\ UNCHANGED <<fbVars, protoVars, txVars, thr>>

\* the driver's thread calls the registered callback.  lidar_stream's
\* callback reads keep_running first and returns at once when it is clear;
\* otherwise the callback is in flight until CbEnd.
CbBegin ==
    /\ proc.driver = "up"
    /\ proc.registered
    /\ proc.cb = nullopt
    /\ ncb < MaxProcCb
    /\ IF proc.program = "lidar_stream" /\ tx.keep_running = 0
       THEN \E r \in {PointCloudCallback(tx, DriverSweep.data, HostClock(ncb),
                                          HostClock(ncb) + 1, NoFail)} :
              /\ tx' = r.g
              /\ sock' = r.ios
              /\ proc' = [proc EXCEPT !.sendtos = @ + Len(r.ios)]
       ELSE /\ proc' = [proc EXCEPT !.cb = Some(DriverSweep),
                                    !.cb_flag = tx.keep_running]
            /\ sock' = <<>>
            /\ tx' = tx
    /\ sweep' = Some(DriverSweep)
    /\ ncb' = ncb + 1
    /\ UNCHANGED <<fbVars, protoVars, tx_log, nwarn, thr>>

\* the callback in flight filters its sweep, calls sendto and returns; a
\* sendto on a descriptor that main has closed fails
CbEnd ==
    /\ proc.cb # nullopt
    /\ \E r \in {IF proc.program = "lidar_stream"
                  THEN PointCloudCallback(
                           [tx EXCEPT !.keep_running = 1], value(proc.cb).data,
                           HostClock(ncb), HostClock(ncb) + 1,
                           IF proc.fd_open THEN NoFail ELSE FailAt(1, "error"))
                  ELSE g1_PointCloudCallback(
                           tx, value(proc.cb).data,
                           IF proc.fd_open THEN "ok" ELSE "error")} :
         /\ tx' = [r.g EXCEPT !.keep_running = tx.keep_running]
         /\ sock' = r.ios
         /\ proc' = [proc EXCEPT !.cb = nullopt,
                                 !.sendtos = @ + Len(r.ios),
                                 !.closed_sendto =
                                     IF proc.fd_open THEN @ ELSE @ + Len(r.ios)]
    /\ UNCHANGED <<fbVars, protoVars, sweep, tx_log, ncb, nwarn, thr>>

NextMain ==
    \/ Startup
    \/ Signal
    \/ MainLoopExit
    \/ Quiesce
    \/ SdkUninit
    \/ CloseSocket
    \/ MainReturn
    \/ CbBegin
    \/ CbEnd

SpecMain == InitMain /\ [][NextMain]_vars

\* main keeps running: the scheduler gives its thread a turn, sleep(1) ends,
\* and LivoxLidarSdkUninit returns once the driver's thread is idle.  A
\* callback in flight returns: CbEnd is enabled exactly while a callback is
\* in flight and ends it, so weak fairness of CbEnd is the recurrence of
\* proc.cb = nullopt.
SpecMainFair ==
    /\ SpecMain
    /\ WF_vars(MainLoopExit)
    /\ WF_vars(Quiesce)
    /\ WF_vars(SdkUninit)
    /\ WF_vars(CloseSocket)
    /\ WF_vars(MainReturn)
    /\ []<>(proc.cb = nullopt)

IsPrefix(s, t) == Len(s) <= Len(t) /\ s = SubSeq(t, 1, Len(s))

\* C23: in every sender executable the teardown runs quiesce, driver
\* uninitialised, socket closed, in this order; the socket is closed only
\* when the driver can deliver no callback, and no callback calls sendto on a
\* closed socket.
C23_TeardownOrder ==
    /\ IsPrefix(proc.teardown, <<"quiesce", "uninit", "close">>)
    /\ proc.closes > 0 => proc.driver = "down"
    /\ proc.closed_sendto = 0

\* a callback invocation begins with the shutdown flag set and returns
CbAfterShutdown ==
    \/ ncb' = ncb + 1 /\ tx.keep_running = 0 /\ proc'.cb = nullopt
    \/ proc.cb # nullopt /\ proc'.cb = nullopt /\ proc.cb_flag = 0

\* C24: a callback invocation that begins after the shutdown flag is set
\* sends no datagram, consumes no sequence number, leaves the timestamp state
\* alone and changes no counter.
C24_ShortCircuit ==
    [][CbAfterShutdown =>
          /\ tx' = tx
          /\ proc'.sendtos = proc.sendtos
          /\ sock' = <<>>
          /\ nwarn' = nwarn]_vars

\* main has returned 0 after one complete teardown
CleanExit ==
    /\ proc.pc = "exited"
    /\ proc.exit_code = Some(0)
    /\ proc.uninits = 1
    /\ proc.closes = 1
    /\ ~proc.fd_open
    /\ proc.driver = "down"

\* C25: once a shutdown signal is delivered the flag stays set whatever
\* signals follow, the main loop exits, the teardown runs to completion once
\* and the process exits with code 0.
C25_ShutdownLiveness ==
    /\ [][tx.keep_running = 0 => tx'.keep_running = 0]_vars
    /\ [](proc.nsig > 0 => tx.keep_running = 0)
    /\ (proc.nsig > 0) ~> CleanExit
    /\ [][CleanExit => proc' = proc]_vars

C25_Witness ==
    /\ proc.program = "lidar_stream"
    /\ proc.nsig = 2
    /\ CleanExit
    /\ proc.teardown = <<"quiesce", "uninit", "close">>
    /\ tx.keep_running = 0

\* what the start of lidar_stream found makes the startup fail
StartupFails(e) ==
    \/ ~e.little_endian
    \/ e.crc /\ e.crc_broken
    \/ ~e.socket_ok
    \/ ~e.ip_ok
    \/ ~e.sdk_ok

\* main reached socket() and the call succeeded
SocketAllocated(e) ==
    /\ e.little_endian
    /\ e.argc_ok
    /\ ~(e.crc /\ e.crc_broken)
    /\ e.socket_ok

\* C26: every startup failure of lidar_stream makes main return a non-zero
\* code with no driver callback registered and no datagram sent, and a socket
\* that was allocated is closed exactly once.
C26_StartupFailure ==
    (proc.program = "lidar_stream" /\ proc.env # nullopt
        /\ StartupFails(value(proc.env))) =>
       /\ proc.pc = "exited"
       /\ proc.exit_code \in {Some(1), Some(0 - 1)}
       /\ ~proc.registered
       /\ proc.driver = "down"
       /\ proc.sendtos = 0 /\ ncb = 0 /\ sock = <<>>
       /\ ~proc.fd_open
       /\ proc.closes = IF SocketAllocated(value(proc.env)) THEN 1 ELSE 0

C26_Witness ==
    /\ proc.program = "lidar_stream"
    /\ proc.env # nullopt
    /\ value(proc.env).socket_ok /\ value(proc.env).ip_ok
    /\ ~value(proc.env).sdk_ok
    /\ value(proc.env).crc /\ ~value(proc.env).crc_broken
    /\ proc.exit_code = Some(0 - 1)
    /\ proc.closes = 1
    /\ proc.udp_socket = 3

\* ------------------------------------------------------------------------
\* Specification of the builder's sequence diagnostics: one-point records
\* of one time window whose sequence numbers lie at both ends of the
\* counter's range and 999, 1000 and 1001 apart.
WideSeqSet == {0, 1, 2, 1001, 1002, UINT32_MOD - 2, UINT32_MOD - 1}

AddPacketSeq ==
    /\ ncalls < MaxCalls
    /\ \E seq \in WideSeqSet :
         LET k == ncalls + 1
             r == add_packet(builder, 0, XyzData(k, 1), 1, seq, k)
         IN  /\ builder' = r.self
             /\ ret' = r.frame
             /\ emitted' = Emit
             /\ UNCHANGED external_stats_
             /\ out' = Returned(r.frame, TRUE)
             /\ last_call' = [op |-> "add_packet", ts |-> 0, n |-> 1,
                              seq |-> seq, k |-> k, branch |-> r.branch]
    /\ ncalls' = ncalls + 1
    /\ UNCHANGED nctl
    /\ UNCHANGED <<protoVars, txVars, procVars>>

SpecGap == Init /\ [][AddPacketSeq]_vars

\* how far the record's seq is ahead of the last seen one, modulo the
\* counter's range
SeqAhead == (last_call'.seq - value(builder.last_seq_)) % UINT32_MOD
GapsCounted == builder'.stats_.seq_gaps - builder.stats_.seq_gaps
ReordersCounted == builder'.stats_.seq_reorders - builder.stats_.seq_reorders

\* C27: a gap is counted exactly when the record's seq is more than one
\* ahead of the last seen seq modulo the counter's range; the largest value
\* followed by 1 counts one gap, followed by 0 counts none.
C27_GapModulo ==
    [][(AddPacketStep /\ has_value(builder.last_seq_)) =>
          /\ GapsCounted =
                 IF SeqAhead >= 2 /\ SeqAhead < UINT32_MOD \div 2 THEN 1 ELSE 0
          /\ (value(builder.last_seq_) = UINT32_MOD - 1 /\ last_call'.seq = 1)
                 => GapsCounted = 1
          /\ (value(builder.last_seq_) = UINT32_MOD - 1 /\ last_call'.seq = 0)
                 => GapsCounted = 0]_vars

\* C28: a reorder is counted exactly when the record's seq is smaller than
\* the last seen seq by less than 1000; a repeated seq and a backward jump
\* of 1000 or more are not counted, and no record is counted both as a gap
\* and as a reorder.
C28_Reorder ==
    [][(AddPacketStep /\ has_value(builder.last_seq_)) =>
          LET last == value(builder.last_seq_)
              seq == last_call'.seq
          IN  /\ ReordersCounted =
                     IF seq < last /\ last - seq < 1000 THEN 1 ELSE 0
              /\ seq = last => ReordersCounted = 0
              /\ GapsCounted + ReordersCounted <= 1]_vars

\* 1002, 2, 1: a backward jump of 1000, not counted, then one of 1, counted
C28_Witness ==
    /\ ncalls = 3
    /\ builder.current_seq_first_ = 1002
    /\ value(builder.last_seq_) = 1
    /\ builder.stats_.seq_reorders = 1
    /\ builder.stats_.seq_gaps = 0

\* ------------------------------------------------------------------------
\* Per-point filtering in the sender callback
FilteredCounted == tx'.stats_filtered_points - tx.stats_filtered_points
CapCounted == tx'.stats_points_dropped_cap - tx.stats_points_dropped_cap

\* C29 as stated: the points that leave the filter are the points of the
\* sweep that are not the sentinel, lie in range and fall on the downsample
\* grid, in raw order, and every other point is counted once in
\* stats_filtered_points.
C29_Original ==
    [][(CallbackStep /\ Processed') =>
          \A data \in {value(sweep').data} :
            \A pts \in {Surviving(data, tx)} :
              /\ FilteredCounted = data.dot_num - Len(pts)
              /\ AllSent' =>
                    PointsSent(sock', Len(sock')) = WirePrefix(pts, Len(pts))]_vars

\* C29 (amended): while the filter buffer holds fewer than 2048 points, a
\* raw point enters it iff it is not the sentinel, lies in range and falls
\* on the downsample grid, and every other such point is counted once in
\* stats_filtered_points; the points met once 2048 have entered are dropped
\* whatever their values and counted in stats_points_dropped_cap instead.
\* The points that entered keep their raw order.
C29_Filter ==
    [][(CallbackStep /\ Processed') =>
          \A data \in {value(sweep').data} :
            \A buf \in {Buffered(data, tx)} :
              \A over \in {Overflowed(data, tx)} :
                /\ FilteredCounted = data.dot_num - over - Len(buf)
                /\ CapCounted >= over
                /\ AllSent' => CapCounted = over
                /\ over = 0 => buf = Surviving(data, tx)
                /\ AllSent' =>
                      PointsSent(sock', Len(sock')) = WirePrefix(buf, Len(buf))]_vars

\* a sweep with a sentinel, a near and a far point was filtered with a
\* downsample factor of 2: two of its nine points went out
C29_Witness ==
    /\ Processed
    /\ value(sweep).data = MixedSweep
    /\ tx.g_downsample = 2
    /\ ncb = 1
    /\ tx.stats_filtered_points = 7
    /\ Len(sock) = 1
    /\ AllSent
    /\ WireCount(sock[1].buffer) = 2

\* ------------------------------------------------------------------------
\* Specification of send_packet called concurrently: NumThreads threads each
\* send MaxThrSends datagrams.  packet_seq and the counters are std::atomic;
\* prev_seq and seq_initialized are plain globals, so a thread's read and
\* its later write of them are separate steps that other threads interleave
\* with.
NumThreads == 2
MaxThrSends == 3
Threads == 1..NumThreads

\* variant: the increment is not stored
fetch_add_lost(g) == [old |-> g.packet_seq, g |-> g]

\* packet_seq.fetch_add(1, std::memory_order_relaxed)
fetch_add(g) ==
    [old |-> g.packet_seq,
     g   |-> [g EXCEPT !.packet_seq = (@ + 1) % PACKET_SEQ_MOD]]

\* pc: where each thread is in send_packet; seq: its local seq; ord: the
\* position of its fetch_add among all of them; sends: datagrams it sent
InitThr ==
    /\ builder = nullopt /\ ret = nullopt /\ last_call = NoCall
    /\ emitted = {} /\ out = NoFrames /\ external_stats_ = nullopt /\ ncalls = 0 /\ nctl = 0
    /\ NoParser
    /\ proc = nullopt
    /\ tx = SenderGlobals(FALSE, DOWNSAMPLE_FACTOR)
    /\ sock = <<>> /\ sweep = nullopt /\ tx_log = <<>> /\ ncb = 0 /\ nwarn = 0
    /\ thr = [pc      |-> [t \in Threads |-> "idle"],
              seq     |-> [t \in Threads |-> 0],
              ord     |-> [t \in Threads |-> 0],
              sends   |-> [t \in Threads |-> 0],
              fetches |-> 0]

\* lidar_stream.cpp:428
FetchSeq(t) ==
    /\ thr.pc[t] = "idle"
    /\ thr.sends[t] < MaxThrSends
    /\ \E r \in {fetch_add(tx)} :
         /\ tx' = r.g
         /\ thr' = [thr EXCEPT !.pc[t] = "fetched", !.seq[t] = r.old,
                               !.ord[t] = thr.fetches, !.fetches = @ + 1]
    /\ UNCHANGED <<fbVars, protoVars, sock, sweep, tx_log, ncb, nwarn, proc>>

\* lidar_stream.cpp:431-436
CheckWrap(t) ==
    /\ thr.pc[t] = "fetched"
    /\ tx' = [tx EXCEPT !.stats_seq_wraps =
                  IF tx.seq_initialized /\ tx.prev_seq = UINT32_MAX
                     /\ thr.seq[t] = 0
                  THEN @ + 1 ELSE @]
    /\ thr' = [thr EXCEPT !.pc[t] = "checked"]
    /\ UNCHANGED <<fbVars, protoVars, sock, sweep, tx_log, ncb, nwarn, proc>>

\* lidar_stream.cpp:438-439
StorePrev(t) ==
    /\ thr.pc[t] = "checked"
    /\ tx' = [tx EXCEPT !.prev_seq = thr.seq[t], !.seq_initialized = TRUE]
    /\ thr' = [thr EXCEPT !.pc[t] = "stored"]
    /\ UNCHANGED <<fbVars, protoVars, sock, sweep, tx_log, ncb, nwarn, proc>>

\* lidar_stream.cpp:441-507: the header takes the local seq, the datagram
\* is sent and counted
SendDatagram(t) ==
    /\ thr.pc[t] = "stored"
    /\ tx' = [tx EXCEPT !.stats_tx_packets = @ + 1]
    /\ tx_log' = Append(tx_log, [cb |-> t, seq |-> thr.seq[t], ok |-> TRUE,
                                 ord |-> thr.ord[t]])
    /\ thr' = [thr EXCEPT !.pc[t] = "idle", !.sends[t] = @ + 1]
    /\ UNCHANGED <<fbVars, protoVars, sock, sweep, ncb, nwarn, proc>>

NextThr ==
    \E t \in Threads :
        \/ FetchSeq(t)
        \/ CheckWrap(t)
        \/ StorePrev(t)
        \/ SendDatagram(t)

SpecThr == InitThr /\ [][NextThr]_vars

\* C30: datagrams sent by concurrent callbacks carry distinct sequence
\* numbers within one cycle of the counter, and the sequence numbers order
\* them as their fetch-adds were ordered.
C30_DistinctSeq ==
    \A i, j \in 1..Len(tx_log) :
        (tx_log[i].ord < tx_log[j].ord
            /\ tx_log[j].ord - tx_log[i].ord < PACKET_SEQ_MOD) =>
          /\ tx_log[i].seq # tx_log[j].seq
          /\ (tx_log[j].seq - tx_log[i].seq) % PACKET_SEQ_MOD
                = tx_log[j].ord - tx_log[i].ord

\* two threads have sent six datagrams; the first to fetch sent second, and
\* the counter has wrapped
C30_Witness ==
    /\ Len(tx_log) = NumThreads * MaxThrSends
    /\ tx_log[1].cb = 2 /\ tx_log[1].seq = 1
    /\ tx_log[2].cb = 1 /\ tx_log[2].seq = 0
    /\ \E i \in 1..Len(tx_log) : tx_log[i].ord >= PACKET_SEQ_MOD

\* ------------------------------------------------------------------------
\* Specification of the receiver's public checksum operation
\* (lidar_protocol_cpp.cpp:38-116).
\* 0x82F63B78, the reflected Castagnoli polynomial of the CRC32C
\* instructions (__crc32cb/ch/cw/cd, _mm_crc32_u8/u32/u64)
CRC32C_POLY == U32(120, 59, 246, 130)

RECURSIVE crc32c_bits(_, _)
\* j more bit steps of a CRC32C instruction
crc32c_bits(crc, j) ==
    IF j = 0 THEN crc
    ELSE crc32c_bits(IF crc[1] % 2 = 1 THEN Xor32(Shr1(crc), CRC32C_POLY)
                     ELSE Shr1(crc), j - 1)

\* the eight bit steps for every value of the low byte
crc32c_table == [i \in 0..255 |-> crc32c_bits(U32(i, 0, 0, 0), 8)]

\* __crc32cb(crc, b), _mm_crc32_u8(crc, b): the byte is xored into the low
\* byte and eight bit steps follow
crc32cb(crc, b) == Xor32(Shr8(crc), crc32c_table[Xor8[crc[1]][b]])

RECURSIVE crc32c_val(_, _, _, _)
\* __crc32ch/cw/cd, _mm_crc32_u32/u64 on the value memcpy'd from
\* data[lo..hi] on a little-endian host: its bytes, least significant first
crc32c_val(crc, data, lo, hi) ==
    IF lo > hi THEN crc
    ELSE IF lo = hi THEN crc32cb(crc, data[lo])
    ELSE LET mid == (lo + hi) \div 2
             left == crc32c_val(crc, data, lo, mid)
         IN  IF Len(left) = 4 THEN crc32c_val(left, data, mid + 1, hi)
             ELSE left

\* LidarProtocol::crc32_hw_arm (lidar_protocol_cpp.cpp:40-73)
crc32_hw_arm(data) ==
    LET length == Len(data)
        i8 == 8 * (length \div 8)
        c8 == crc32c_val(U32_ONES, data, 1, i8)
        i4 == IF i8 + 3 < length THEN i8 + 4 ELSE i8
        c4 == IF i8 + 3 < length THEN crc32c_val(c8, data, i8 + 1, i8 + 4)
              ELSE c8
        i2 == IF i4 + 1 < length THEN i4 + 2 ELSE i4
        c2 == IF i4 + 1 < length THEN crc32c_val(c4, data, i4 + 1, i4 + 2)
              ELSE c4
        c1 == IF i2 < length THEN crc32cb(c2, data[i2 + 1]) ELSE c2
    IN  Xor32(c1, U32_ONES)

\* LidarProtocol::crc32_hw_sse42 (lidar_protocol_cpp.cpp:78-99)
crc32_hw_sse42(data) ==
    LET length == Len(data)
        i8 == 8 * (length \div 8)
        c8 == crc32c_val(U32_ONES, data, 1, i8)
        i4 == i8 + 4 * ((length - i8) \div 4)
        c4 == crc32c_val(c8, data, i8 + 1, i4)
        c1 == crc32c_val(c4, data, i4 + 1, length)
    IN  Xor32(c1, U32_ONES)

\* LidarProtocol::crc32_sw_zlib (lidar_protocol_cpp.cpp:103-105)
crc32_sw_zlib(data) == zlib_crc32(U32_ZERO, data)

\* the macros a build of the library may define
Builds == [HAVE_ARM_CRC32 : BOOLEAN, HAVE_SSE42_CRC32 : BOOLEAN]

\* LidarProtocol::crc32_ieee (lidar_protocol_cpp.cpp:108-116)
crc32_ieee(build, data) ==
    IF build.HAVE_ARM_CRC32 THEN crc32_hw_arm(data)
    ELSE IF build.HAVE_SSE42_CRC32 THEN crc32_hw_sse42(data)
    ELSE crc32_sw_zlib(data)

\* Inputs: the prefixes of "123456789ABCDEFGH" (lengths 0 to 17, so that
\* the 8-, 4-, 2- and 1-byte steps all occur) and their tails of at most
\* three bytes
CrcText == <<49, 50, 51, 52, 53, 54, 55, 56, 57, 65, 66, 67, 68, 69, 70, 71, 72>>
CrcInputs ==
    {SubSeq(CrcText, 1, n) : n \in 0..Len(CrcText)}
        \cup {SubSeq(CrcText, a, a + n) : a \in 2..6, n \in 0..2}

InitCrc ==
    /\ builder = nullopt /\ ret = nullopt /\ last_call = NoCall
    /\ emitted = {} /\ out = NoFrames /\ external_stats_ = nullopt /\ ncalls = 0 /\ nctl = 0
    /\ NoSender
    /\ NoProcess
    /\ \E build \in Builds : proto = [build |-> build]
    /\ rx_data = <<>>
    /\ rx_ret = nullopt
    /\ nparse = 0

\* a call of LidarProtocol::crc32_ieee(data, length)
CrcIeee ==
    /\ nparse < MaxParse
    /\ \E data \in CrcInputs :
         /\ rx_data' = data
         /\ rx_ret' = Some(crc32_ieee(proto.build, data))
    /\ nparse' = nparse + 1
    /\ UNCHANGED <<proto, fbVars, txVars, procVars>>

SpecCrc == InitCrc /\ [][CrcIeee]_vars

\* C31: in every build crc32_ieee returns the IEEE 802.3 CRC-32 of its
\* input: the value of the sender's crc32_calculate and of the zlib
\* computation parse_datagram uses.
C31_CrcIeee ==
    has_value(rx_ret) =>
       /\ value(rx_ret) = crc32_calculate(rx_data)
       /\ \A k \in {Len(rx_data) \div 2} :
             value(rx_ret) = zlib_crc32(zlib_crc32(U32_ZERO, SubSeq(rx_data, 1, k)),
                                        SubSeq(rx_data, k + 1, Len(rx_data)))

\* ------------------------------------------------------------------------
\* Accounting of the parser
OutcomeCounters ==
    {"valid_packets", "crc_failures", "bad_magic", "bad_version",
     "len_mismatch", "invalid_count"}

\* C32: total_packets is the sum of the six outcome counters; a
\* parse_datagram call adds one to total_packets and to exactly one outcome
\* counter, and returns a record iff that counter is valid_packets.
C32_ParserAccounting ==
    /\ [](proto.stats_.total_packets
            = proto.stats_.valid_packets + proto.stats_.crc_failures
                + proto.stats_.bad_magic + proto.stats_.bad_version
                + proto.stats_.len_mismatch + proto.stats_.invalid_count)
    /\ [][ParseStep =>
            /\ proto'.stats_.total_packets = proto.stats_.total_packets + 1
            /\ \E c \in OutcomeCounters :
                  /\ proto'.stats_[c] = proto.stats_[c] + 1
                  /\ \A o \in OutcomeCounters \ {c} :
                        proto'.stats_[o] = proto.stats_[o]
                  /\ has_value(rx_ret') <=> c = "valid_packets"]_vars

\* an accepted datagram, then one rejected for its point count
C32_Witness ==
    /\ nparse = 2
    /\ proto.stats_.total_packets = 2
    /\ proto.stats_.valid_packets = 1
    /\ proto.stats_.invalid_count = 1
    /\ rx_ret = nullopt

\* ------------------------------------------------------------------------
\* Accounting of the frame builder
RecordCounters == {"late_packets", "overflow_frames", "packets_added"}

\* C33: the number of add_packet calls is late_packets + overflow_frames +
\* packets_added; a call adds one to exactly one of the three, and adds the
\* record's point count to points_added iff that one is packets_added.
C33_RecordAccounting ==
    /\ [](ncalls = builder.stats_.late_packets + builder.stats_.overflow_frames
                     + builder.stats_.packets_added)
    /\ [][AddPacketStep =>
            \E c \in RecordCounters :
              /\ builder'.stats_[c] = builder.stats_[c] + 1
              /\ \A o \in RecordCounters \ {c} :
                    builder'.stats_[o] = builder.stats_[o]
              /\ builder'.stats_.points_added
                    = builder.stats_.points_added
                        + (IF c = "packets_added" THEN last_call'.n ELSE 0)]_vars

\* one record late, one dropped for overflow, one admitted with its point
C33_Witness ==
    /\ ncalls = 3
    /\ builder.stats_.late_packets = 1
    /\ builder.stats_.overflow_frames = 1
    /\ builder.stats_.packets_added = 1
    /\ builder.stats_.points_added = 1

\* C34: no admitted record is lost.  After add_packet calls with timestamps
\* >= 0 and at least one point each, and no reset, one flush leaves the
\* frames returned so far (the one of the flush included) with pkt_count
\* summing to packets_added and point_count summing to points_added, and
\* frames_built is the number of frames returned.
C34_NothingLost ==
    [][FlushStep /\ out.pre =>
          /\ out'.pkt_count = builder'.stats_.packets_added
          /\ out'.point_count = builder'.stats_.points_added
          /\ out'.frames = builder'.stats_.frames_built]_vars

\* three records admitted to two frames, the second returned by the flush
C34_Witness ==
    /\ last_call.op = "flush" /\ has_value(ret)
    /\ ~out.pre /\ ncalls = 3 /\ nctl = 1
    /\ out.frames = 2 /\ out.pkt_count = 3 /\ out.point_count = 5
    /\ builder.stats_.packets_added = 3


\* C35: a record with points admitted by add_packet, whatever the sign of its
\* timestamp, stays in an open frame: a flush that follows returns a frame
\* holding it, and an in-window add_packet that follows keeps the frame and
\* returns nothing.
C35_NegativeTs ==
    [][(last_call.op = "add_packet" /\ Admitted /\ last_call.n >= 1) =>
          /\ FlushStep =>
                /\ has_value(ret')
                /\ value(ret').g_recs = builder.g_recs
          /\ (AddPacketStep /\ IsInWindow) =>
                /\ ret' = nullopt
                /\ IsPrefix(builder.g_recs, builder'.g_recs)]_vars


\* ------------------------------------------------------------------------
\* Point accounting of the sender callback
TxPointsCounted == tx'.stats_tx_points - tx.stats_tx_points

\* C36: every raw point of a processed sweep is counted exactly once, in
\* stats_filtered_points, in stats_points_dropped_cap (buffer cap or send
\* failure) or in stats_tx_points; a callback that returns early counts
\* nothing.
C36_PointAccounting ==
    [][CallbackStep =>
          IF Processed'
          THEN value(sweep').data.dot_num
                  = FilteredCounted + CapCounted + TxPointsCounted
          ELSE FilteredCounted + CapCounted + TxPointsCounted = 0]_vars


\* a sweep of 250 points: 125 filtered, 105 sent in one datagram, and the
\* remaining 20 dropped when the second send failed
C36_Witness ==
    /\ Processed /\ ncb = 1
    /\ value(sweep).data.dot_num = 250
    /\ tx.stats_filtered_points = 125
    /\ tx.stats_points_dropped_cap = 20
    /\ tx.stats_tx_points = 105
    /\ ~AllSent


\* ------------------------------------------------------------------------
\* the sequence number the first send_packet call of the session took
StartSeq == IF tx_log = <<>> THEN tx.packet_seq ELSE tx_log[1].seq
\* count filtered points, to call send_packet with
SomePoints(count) == [i \in 1..count |-> OnePoint[1]]

\* C37: the sequence counter is the number of send attempts past its start,
\* modulo its range; a further send_packet call with 1..105 points advances
\* it by one whatever sendto does, and one with 0 or more than 105 points
\* fails and changes nothing; the first datagram transmitted after a failed
\* send does not carry the number following the last transmitted one.
C37_Attempts ==
    /\ tx.packet_seq = (StartSeq + Len(tx_log)) % PACKET_SEQ_MOD
    /\ \A kind \in SendtoKinds :
         \A count \in {1, TX_MAX_POINTS_PER_PACKET} :
           \A sp \in {send_packet(tx, 0, SomePoints(count), 0, count, kind)} :
             /\ sp.g.packet_seq = (tx.packet_seq + 1) % PACKET_SEQ_MOD
             /\ has_value(sp.io) /\ value(sp.io).seq = tx.packet_seq
             /\ sp.ret = 0 <=> kind = "ok"
    /\ \A kind \in SendtoKinds :
         \A count \in {0, TX_MAX_POINTS_PER_PACKET + 1} :
           \A sp \in {send_packet(tx, 0, SomePoints(count), 0, count, kind)} :
             sp.g = tx /\ sp.ret = 0 - 1 /\ sp.io = nullopt
    /\ \A i, j \in 1..Len(tx_log) :
         (NextEmitted(i, j) /\ j > i + 1) =>
            tx_log[j].seq # (tx_log[i].seq + 1) % PACKET_SEQ_MOD

\* three attempts from 0: the second failed, so the transmitted datagrams
\* carry 0 and 2 and the counter stands at 3
C37_Witness ==
    /\ Len(tx_log) = 3
    /\ Emitted(1) /\ ~Emitted(2) /\ Emitted(3)
    /\ tx_log[1].seq = 0 /\ tx_log[3].seq = 2
    /\ tx.packet_seq = 3


\* ------------------------------------------------------------------------
\* Specification of add_packets_batch: the builder is fed batches of up to
\* MaxCalls records in all.  A batch entry i stands for device_ts_ns_batch[i],
\* xyz_data_batch[i], point_counts[i] and seq_batch[i]; the timestamps reach
\* two periods, so that one batch can complete two frames.
\* ------------------------------------------------------------------------
BatchTsSet == TsSet \cup {2 * FRAME_PERIOD_NS}
BatchEntries == [ts : BatchTsSet, n : CountSet, seq : SeqSet]
Batches(size) == [1..size -> BatchEntries]

\* the for loop of add_packets_batch from index i on; k0 records were passed
\* to the builder before the batch
RECURSIVE add_packets_batch_loop(_, _, _, _, _)
add_packets_batch_loop(self, batch, i, completed_frames, k0) ==
    IF i > Len(batch)
    THEN [self |-> self, frames |-> completed_frames]
    ELSE LET result == add_packet(self, batch[i].ts,
                                  XyzData(k0 + i, batch[i].n), batch[i].n,
                                  batch[i].seq, k0 + i)
         IN  add_packets_batch_loop(
                 result.self, batch, i + 1,
                 IF has_value(result.frame)
                 THEN Append(completed_frames, value(result.frame))
                 ELSE completed_frames,
                 k0)

\* variant: the completed frames are collected newest first
add_packets_batch_newest_first(self, batch, k0) ==
    LET all == add_packets_batch_loop(self, batch, 1, <<>>, k0)
    IN  [self   |-> all.self,
         frames |-> [j \in 1..Len(all.frames) |->
                        all.frames[Len(all.frames) + 1 - j]]]

add_packets_batch(self, batch, k0) ==
    add_packets_batch_loop(self, batch, 1, <<>>, k0)

AddPacketsBatch ==
    /\ \E size \in 0..(MaxCalls - ncalls) :
         \E batch \in Batches(size) :
           \E r \in {add_packets_batch(builder, batch, ncalls)} :
             /\ builder' = r.self
             /\ ret' = r.frames
             /\ last_call' = [op |-> "add_packets_batch", batch |-> batch,
                              k |-> ncalls]
             /\ UNCHANGED external_stats_
             /\ out' = Returned(r.frames,
                                \A i \in 1..size :
                                    batch[i].ts >= 0 /\ batch[i].n >= 1)
             /\ ncalls' = ncalls + size
    /\ emitted' = Emit
    /\ UNCHANGED nctl
    /\ UNCHANGED <<protoVars, txVars, procVars>>

SpecBatch == Init /\ [][AddPacketsBatch]_vars

\* this step is a call of add_packets_batch
BatchStep == last_call'.op = "add_packets_batch" /\ last_call' # last_call

\* the add_packet calls for the first m entries of batch, one by one: the
\* builder they leave and the frames they returned, in call order
RECURSIVE OneByOne(_, _, _, _)
OneByOne(self, batch, m, k0) ==
    IF m = 0
    THEN [self |-> self, frames |-> <<>>]
    ELSE LET before == OneByOne(self, batch, m - 1, k0)
             call   == add_packet(before.self, batch[m].ts,
                                  XyzData(k0 + m, batch[m].n), batch[m].n,
                                  batch[m].seq, k0 + m)
         IN  [self |-> call.self, frames |-> before.frames \o call.frame]

\* C38: add_packets_batch returns the frames that add_packet returns when
\* called on the batch entries one by one in index order, in that order,
\* and leaves the builder, statistics included, as those calls leave it.
C38_BatchEquivalence ==
    [][BatchStep =>
          \A batch \in {last_call'.batch} :
            \A seq \in {OneByOne(builder, batch, Len(batch), last_call'.k)} :
              /\ ret' = seq.frames
              /\ builder' = seq.self]_vars

\* a batch of three records that completed two frames, first the one of the
\* record with timestamp 0, then the one of the record with timestamp 2
C38_Witness ==
    /\ last_call.op = "add_packets_batch"
    /\ Len(last_call.batch) = 3
    /\ Len(ret) = 2
    /\ ret[1].start_ts_ns = 0 /\ ret[2].start_ts_ns = FRAME_PERIOD_NS
    /\ builder.current_frame_start_ts_ = 2 * FRAME_PERIOD_NS
    /\ builder.stats_.frames_built = 2


\* ------------------------------------------------------------------------
\* this step is a call of reset
ResetCallStep == nctl' = nctl + 1 /\ last_call'.op = "reset"

\* C39: reset returns no frame, empties the open frame, forgets the last
\* seen sequence number and changes no statistics counter; the add_packet
\* call that follows it returns nothing, opens a frame whose start and first
\* sequence number are those of its record, and counts neither a gap nor a
\* reorder.
C39_Reset ==
    /\ [][ResetCallStep =>
            /\ ret' = nullopt
            /\ builder'.stats_ = builder.stats_
            /\ builder'.current_frame_start_ts_ = 0 - 1
            /\ builder'.current_point_count_ = 0
            /\ builder'.current_pkt_count_ = 0
            /\ builder'.point_buffer_ = <<>>
            /\ builder'.last_seq_ = nullopt]_vars
    /\ [][(last_call.op = "reset" /\ AddPacketStep) =>
            /\ ret' = nullopt
            /\ builder'.current_frame_start_ts_ = ArgTs
            /\ builder'.current_seq_first_ = ArgSeq
            /\ builder'.last_seq_ = Some(ArgSeq)
            /\ builder'.stats_.seq_gaps = builder.stats_.seq_gaps
            /\ builder'.stats_.seq_reorders = builder.stats_.seq_reorders
            /\ builder'.stats_.frames_built = builder.stats_.frames_built
            /\ builder'.stats_.late_packets = builder.stats_.late_packets]_vars

\* reset has discarded a frame of two records with one point each: they
\* are counted as added, no frame was built and the builder is empty
C39_Witness ==
    /\ last_call.op = "reset"
    /\ out.pre = FALSE /\ out.frames = 0
    /\ ncalls = 2
    /\ builder.stats_.packets_added = 2
    /\ builder.stats_.points_added = 2
    /\ builder.stats_.frames_built = 0
    /\ builder.current_frame_start_ts_ = 0 - 1
    /\ builder.point_buffer_ = <<>>


\* ------------------------------------------------------------------------
\* Specification of the Python binding FrameBuilderPy: builder is its member
\* builder_ (whose stats_ is the binding's internal FrameBuilderStats) and
\* external_stats_ the Python object given to the constructor, nullopt for
\* None.  The arrays passed in have shape (N, 3).
\* ------------------------------------------------------------------------
\* records of one add_packets_batch call of the binding
MaxPyBatch == 2

\* sync_stats_to_python: the seven attributes are assigned one by one
sync_stats_to_python(s) ==
    Some([frames_built    |-> s.frames_built,
          packets_added   |-> s.packets_added,
          points_added    |-> s.points_added,
          late_packets    |-> s.late_packets,
          seq_gaps        |-> s.seq_gaps,
          seq_reorders    |-> s.seq_reorders,
          overflow_frames |-> s.overflow_frames])

FrameBuilderPy_add_packet(self, ext, device_ts_ns, xyz_data, point_count, seq, k) ==
    LET result == add_packet(self, device_ts_ns, xyz_data, point_count, seq, k)
    IN  [self   |-> result.self,
         ext    |-> IF has_value(result.frame) /\ has_value(ext)
                    THEN sync_stats_to_python(result.self.stats_)
                    ELSE ext,
         frame  |-> result.frame,
         branch |-> result.branch]

FrameBuilderPy_add_packets_batch(self, ext, batch, k0) ==
    IF Len(batch) = 0
    THEN [self |-> self, ext |-> ext, frames |-> <<>>]
    ELSE LET r == add_packets_batch(self, batch, k0)
         IN  [self   |-> r.self,
              ext    |-> IF r.frames # <<>> /\ has_value(ext)
                         THEN sync_stats_to_python(r.self.stats_)
                         ELSE ext,
              frames |-> r.frames]

\* variant: flush syncs only when it returns a frame
FrameBuilderPy_flush_when_frame(self, ext) ==
    LET result == flush(self)
    IN  [self  |-> result.self,
         ext   |-> IF has_value(result.frame) /\ has_value(ext)
                   THEN sync_stats_to_python(result.self.stats_)
                   ELSE ext,
         frame |-> result.frame]

FrameBuilderPy_flush(self, ext) ==
    LET result == flush(self)
    IN  [self  |-> result.self,
         ext   |-> IF has_value(ext)
                   THEN sync_stats_to_python(result.self.stats_)
                   ELSE ext,
         frame |-> result.frame]

FrameBuilderPy_reset(self, ext) ==
    LET b == reset(self)
    IN  [self |-> b,
         ext  |-> IF has_value(ext) THEN sync_stats_to_python(b.stats_)
                  ELSE ext]

\* FrameBuilderPy(frame_period_s, max_frame_points, stats_obj)
InitPy ==
    /\ builder = FrameBuilder(FRAME_PERIOD_NS, MAX_FRAME_POINTS)
    /\ \E is_none \in BOOLEAN :
         external_stats_ = IF is_none THEN nullopt
                           ELSE sync_stats_to_python(builder.stats_)
    /\ ret = nullopt
    /\ last_call = NoCall
    /\ emitted = {}
    /\ out = NoFrames
    /\ ncalls = 0
    /\ nctl = 0
    /\ NoParser
    /\ NoSender
    /\ NoProcess

PyAddPacket ==
    /\ ncalls < MaxCalls
    /\ \E ts \in TsSet, n \in CountSet, seq \in SeqSet :
         \E r \in {FrameBuilderPy_add_packet(builder, external_stats_, ts,
                      XyzData(ncalls + 1, n), n, seq, ncalls + 1)} :
           /\ builder' = r.self
           /\ external_stats_' = r.ext
           /\ ret' = r.frame
           /\ out' = Returned(r.frame, ts >= 0 /\ n >= 1)
           /\ last_call' = [op |-> "add_packet", ts |-> ts, n |-> n,
                            seq |-> seq, k |-> ncalls + 1,
                            branch |-> r.branch]
    /\ emitted' = Emit
    /\ ncalls' = ncalls + 1
    /\ UNCHANGED nctl
    /\ UNCHANGED <<protoVars, txVars, procVars>>

PyAddPacketsBatch ==
    /\ \E size \in 0..MaxPyBatch :
         /\ ncalls + size <= MaxCalls
         /\ \E batch \in [1..size -> [ts : TsSet, n : CountSet, seq : SeqSet]] :
              \E r \in {FrameBuilderPy_add_packets_batch(
                           builder, external_stats_, batch, ncalls)} :
                /\ builder' = r.self
                /\ external_stats_' = r.ext
                /\ ret' = r.frames
                /\ out' = Returned(r.frames, FALSE)
                /\ last_call' = [op |-> "add_packets_batch", batch |-> batch,
                                 k |-> ncalls]
                /\ ncalls' = ncalls + size
    /\ emitted' = Emit
    /\ UNCHANGED nctl
    /\ UNCHANGED <<protoVars, txVars, procVars>>

PyFlush ==
    /\ nctl < MaxCtl
    /\ \E r \in {FrameBuilderPy_flush(builder, external_stats_)} :
         /\ builder' = r.self
         /\ external_stats_' = r.ext
         /\ ret' = r.frame
         /\ out' = Returned(r.frame, FALSE)
    /\ last_call' = [NoCall EXCEPT !.op = "flush"]
    /\ emitted' = Emit
    /\ nctl' = nctl + 1
    /\ UNCHANGED ncalls
    /\ UNCHANGED <<protoVars, txVars, procVars>>

PyReset ==
    /\ nctl < MaxCtl
    /\ \E r \in {FrameBuilderPy_reset(builder, external_stats_)} :
         /\ builder' = r.self
         /\ external_stats_' = r.ext
    /\ ret' = nullopt
    /\ out' = Returned(nullopt, FALSE)
    /\ last_call' = [NoCall EXCEPT !.op = "reset"]
    /\ emitted' = Emit
    /\ nctl' = nctl + 1
    /\ UNCHANGED ncalls
    /\ UNCHANGED <<protoVars, txVars, procVars>>

NextPy == PyAddPacket \/ PyAddPacketsBatch \/ PyFlush \/ PyReset

SpecPy == InitPy /\ [][NextPy]_vars

\* the counters of FrameBuilderStats
StatsCounters == DOMAIN FrameBuilderStats

\* C40: with an external stats object, no external counter is ever greater
\* than the internal one; all of them equal the internal ones right after
\* construction, after an add_packet call that returned a frame, after
\* flush and after reset.
C40_ExternalStats ==
    has_value(external_stats_) =>
      /\ \A c \in StatsCounters :
           value(external_stats_)[c] <= builder.stats_[c]
      /\ (\/ last_call.op \in {"ctor", "flush", "reset"}
          \/ last_call.op = "add_packet" /\ has_value(ret)) =>
            value(external_stats_) = builder.stats_

\* after a late record add_packet returned None and the external object
\* still shows no late packet
C40_Witness ==
    /\ has_value(external_stats_)
    /\ last_call.op = "add_packet" /\ last_call.branch = "late"
    /\ ret = nullopt
    /\ builder.stats_.late_packets = 1
    /\ value(external_stats_).late_packets = 0
    /\ value(external_stats_).packets_added < builder.stats_.packets_added


====
